---- MODULE Spec2Model ----
(***************************************************************************)
(* Model of the LogParser line-to-record pipeline (src/src/log_parser.py,  *)
(* src/src/field_extractor.py).                                            *)
(*                                                                         *)
(* Text is a sequence of symbols.  A symbol is one character ("{", "\"",   *)
(* " ", ...) or an indivisible run of characters that contains none of the *)
(* characters the code looks at one by one (a key name such as             *)
(* "messageUser", or the marker "zhangdan:", which stands for the three    *)
(* characters of the bill keyword).  Character offsets of the code become  *)
(* symbol offsets; positions are 1-based and 0 plays the part of Python's  *)
(* -1 ("not found").                                                       *)
(*                                                                         *)
(* Python values are tagged records [t, v]; an exception that leaves a     *)
(* function is the value Raise(name), and every caller propagates or       *)
(* catches it exactly where the code has (or lacks) a handler.             *)
(***************************************************************************)
EXTENDS Integers, Sequences, FiniteSets, TLC

VARIABLES pc, text, bill_str, log_data, extracted, log_line, payload, ret,
          file_lines, mode, line_num, results,
          fault, console,
          format, out, count, fieldnames, sink_pc, raised,
          worker_pc, stream, item, buffered, flush_at, yielded,
          preview_queue, preview_polling, preview_tree,
          poll_timers, after_queue, btn_run, runs

\* how reading the file ends, and what the file functions print
file_io == <<fault, console>>

\* a sink at work: the format asked for, the output file, the local
\* variables count and fieldnames, where the sink is, and the exception that
\* left it
sink_vars == <<format, out, count, fieldnames, sink_pc, raised>>

\* the window: the worker thread (where it is, the record stream it reads,
\* the locals item and buffered of _stream_with_preview, how far its flush
\* loop is, the records it has yielded to the sink), the preview queue, the
\* polling flag, the rows of the preview table, the pending 80 ms poll
\* timers, the pending after(0) callbacks, the run button, the runs started
gui_vars == <<worker_pc, stream, item, buffered, flush_at, yielded,
              preview_queue, preview_polling, preview_tree,
              poll_timers, after_queue, btn_run, runs>>

vars == <<pc, text, bill_str, log_data, extracted, log_line, payload, ret,
          file_lines, mode, line_num, results,
          fault, console,
          format, out, count, fieldnames, sink_pc, raised,
          worker_pc, stream, item, buffered, flush_at, yielded,
          preview_queue, preview_polling, preview_tree,
          poll_timers, after_queue, btn_run, runs>>

-----------------------------------------------------------------------------
(* Python values *)

PyNone == [t |-> "none", v |-> 0]
Str(s) == [t |-> "str", v |-> s]
Num(n) == [t |-> "num", v |-> n]
Arr(items) == [t |-> "arr", v |-> items]
Obj(pairs) == [t |-> "obj", v |-> pairs]
Raise(name) == [t |-> "raise", v |-> name]

IsRaise(x) == x.t = "raise"

\* bool(x): None, "", 0, [] and {} are falsy
Truthy(x) ==
    CASE x.t = "none" -> FALSE
      [] x.t = "str" -> x.v # <<>>
      [] x.t = "num" -> x.v # 0
      [] x.t = "arr" -> x.v # <<>>
      [] x.t = "obj" -> x.v # <<>>
      [] OTHER -> TRUE

\* x or None
OrNone(x) == IF Truthy(x) THEN x ELSE PyNone

-----------------------------------------------------------------------------
(* str methods *)

IsSpace(c) == c \in {" ", "\n"}

\* s[i:] with i a 1-based first index
From(s, i) == SubSeq(s, i, Len(s))

Matches(s, sub, i) ==
    /\ i >= 1
    /\ i + Len(sub) - 1 <= Len(s)
    /\ SubSeq(s, i, i + Len(sub) - 1) = sub

\* s.find(sub, start): least match position >= start, 0 if none
Find(s, sub, start) ==
    LET hits == {i \in start..Len(s) : Matches(s, sub, i)}
    IN IF hits = {} THEN 0 ELSE CHOOSE i \in hits : \A j \in hits : i <= j

\* s.rfind(sub): greatest match position, 0 if none
RFind(s, sub) ==
    LET hits == {i \in 1..Len(s) : Matches(s, sub, i)}
    IN IF hits = {} THEN 0 ELSE CHOOSE i \in hits : \A j \in hits : i >= j

\* s.strip()
Strip(s) ==
    LET keep == {i \in 1..Len(s) : ~IsSpace(s[i])}
    IN IF keep = {} THEN <<>>
       ELSE SubSeq(s, CHOOSE i \in keep : \A j \in keep : i <= j,
                      CHOOSE i \in keep : \A j \in keep : i >= j)

RECURSIVE Replace(_, _, _)
\* s.replace(old, new), Len(old) > 0: leftmost non-overlapping occurrences
Replace(s, old, new) ==
    LET hit == Find(s, old, 1)
    IN IF hit = 0 THEN s
       ELSE SubSeq(s, 1, hit - 1) \o new \o Replace(From(s, hit + Len(old)), old, new)

\* the first position >= i of s that holds a symbol of set, Len(s) + 1 if none
NextIn(s, i, set) ==
    LET hits == {j \in i..Len(s) : s[j] \in set}
    IN IF hits = {} THEN Len(s) + 1 ELSE CHOOSE j \in hits : \A k \in hits : j <= k

RECURSIVE SkipSpace(_, _)
\* while i < len(s) and s[i].isspace(): i += 1
SkipSpace(s, i) ==
    IF i <= Len(s) /\ IsSpace(s[i]) THEN SkipSpace(s, i + 1) ELSE i

-----------------------------------------------------------------------------
(* LogParser._find_bill_list *)

bill_keyword == <<"zhangdan:">>

RECURSIVE start_positions(_, _, _)
\* the while loop collecting pos + len(bill_keyword) for every occurrence
start_positions(txt, pos, acc) ==
    IF pos = 0 THEN acc
    ELSE start_positions(txt, Find(txt, bill_keyword, pos + 1),
                         Append(acc, pos + Len(bill_keyword)))

\* variant that stops at the first ']', whatever the depth
bracket_match_first_close(txt, from, bracket_count) ==
    LET i == NextIn(txt, from, {"]"})
    IN IF i > Len(txt) THEN 0 ELSE i

RECURSIVE bracket_match(_, _, _)
\* the for loop over range(start_pos, len(text)): position of the ']' that
\* brings bracket_count back to 0, or 0 when the loop runs off the text
\* (the characters that are no bracket change nothing and are stepped over)
bracket_match(txt, from, bracket_count) ==
    LET i == NextIn(txt, from, {"[", "]"})
    IN IF i > Len(txt) THEN 0
       ELSE IF txt[i] = "[" THEN bracket_match(txt, i + 1, bracket_count + 1)
       ELSE IF bracket_count - 1 = 0 THEN i
       ELSE bracket_match(txt, i + 1, bracket_count - 1)

RECURSIVE scan_positions_first(_, _, _)
\* variant that visits start_positions in forward order
scan_positions_first(txt, positions, k) ==
    IF k > Len(positions) THEN PyNone
    ELSE LET start_pos == SkipSpace(txt, positions[k])
         IN IF start_pos > Len(txt) THEN scan_positions_first(txt, positions, k + 1)
            ELSE IF txt[start_pos] = "[" /\ bracket_match(txt, start_pos, 0) # 0
                 THEN Str(Strip(SubSeq(txt, start_pos, bracket_match(txt, start_pos, 0))))
                 ELSE scan_positions_first(txt, positions, k + 1)

RECURSIVE scan_positions(_, _, _)
\* for start_pos in reversed(start_positions): k runs from the last entry down
scan_positions(txt, positions, k) ==
    IF k < 1 THEN PyNone
    ELSE LET start_pos == SkipSpace(txt, positions[k])
         IN IF start_pos > Len(txt) THEN scan_positions(txt, positions, k - 1)
            ELSE IF txt[start_pos] = "[" /\ bracket_match(txt, start_pos, 0) # 0
                 THEN Str(Strip(SubSeq(txt, start_pos, bracket_match(txt, start_pos, 0))))
                 ELSE scan_positions(txt, positions, k - 1)

find_bill_list_first(txt) ==
    scan_positions_first(txt, start_positions(txt, Find(txt, bill_keyword, 1), <<>>), 1)

\* text is a str here; the callers handle the other types
find_bill_list(txt) ==
    LET positions == start_positions(txt, Find(txt, bill_keyword, 1), <<>>)
    IN scan_positions(txt, positions, Len(positions))

-----------------------------------------------------------------------------
(* json.loads, restricted to the symbols of the model: objects, arrays,    *)
(* strings with the escapes \", \\ and \n, integers, and null.  A decoder   *)
(* result is [ok, val, end]; end is the position after the decoded value.  *)

DigitChars == <<"0", "1", "2", "3", "4", "5", "6", "7", "8", "9">>
Digits == {DigitChars[i] : i \in 1..10}
DigitValue(c) == (CHOOSE i \in 1..10 : DigitChars[i] = c) - 1

Fail == [ok |-> FALSE, val |-> PyNone, end |-> 0]
Ok(val, end) == [ok |-> TRUE, val |-> val, end |-> end]

RECURSIVE scanstring(_, _, _)
\* json.decoder.py_scanstring, strict: end is the position after the opening
\* quote; a raw newline (control character) or an unknown escape is an error
\* (STRINGCHUNK: the run up to the next quote, backslash or control character
\* is taken in one piece)
scanstring(s, begin, acc) ==
    LET end == NextIn(s, begin, {"\"", "\\", "\n"})
        chunks == acc \o SubSeq(s, begin, end - 1)
    IN IF end > Len(s) THEN Fail
       ELSE IF s[end] = "\"" THEN Ok(Str(chunks), end + 1)
       ELSE IF s[end] = "\n" THEN Fail
       ELSE IF end + 1 <= Len(s) /\ s[end + 1] \in {"\"", "\\"}
            THEN scanstring(s, end + 2, Append(chunks, s[end + 1]))
       ELSE IF end + 1 <= Len(s) /\ s[end + 1] = "n"
            THEN scanstring(s, end + 2, Append(chunks, "\n"))
       ELSE Fail

RECURSIVE digit_run(_, _, _)
\* [1-9]\d* : the run of digits from position i, as [val, end]
digit_run(s, i, n) ==
    IF i <= Len(s) /\ s[i] \in Digits
    THEN digit_run(s, i + 1, 10 * n + DigitValue(s[i]))
    ELSE [val |-> n, end |-> i]

\* NUMBER_RE = (-?(?:0|[1-9]\d*)) at position i, which holds a digit
match_int(s, i) ==
    IF s[i] = "0" THEN [val |-> 0, end |-> i + 1] ELSE digit_run(s, i, 0)

RECURSIVE scan_once(_, _)
RECURSIVE JSONObject(_, _, _)
RECURSIVE JSONArray(_, _, _)

\* json.scanner.py_make_scanner._scan_once
scan_once(s, idx) ==
    IF idx > Len(s) THEN Fail
    ELSE CASE s[idx] = "\"" -> scanstring(s, idx + 1, <<>>)
           [] s[idx] = "{" ->
                LET e == SkipSpace(s, idx + 1)
                IN IF e > Len(s) THEN Fail
                   ELSE IF s[e] = "}" THEN Ok(Obj(<<>>), e + 1)
                   ELSE IF s[e] # "\"" THEN Fail
                   ELSE JSONObject(s, e + 1, <<>>)
           [] s[idx] = "[" ->
                LET e == SkipSpace(s, idx + 1)
                IN IF e > Len(s) THEN Fail
                   ELSE IF s[e] = "]" THEN Ok(Arr(<<>>), e + 1)
                   ELSE JSONArray(s, e, <<>>)
           [] s[idx] = "null" -> Ok(PyNone, idx + 1)
           [] s[idx] \in Digits ->
                LET m == match_int(s, idx) IN Ok(Num(m.val), m.end)
           [] s[idx] = "-" ->
                IF idx + 1 <= Len(s) /\ s[idx + 1] \in Digits
                THEN LET m == match_int(s, idx + 1) IN Ok(Num(0 - m.val), m.end)
                ELSE Fail
           [] OTHER -> Fail

\* json.decoder.JSONObject, the loop over members: end is the position after
\* the opening quote of the next key
JSONObject(s, end, pairs) ==
    LET k == scanstring(s, end, <<>>)
    IN IF ~k.ok THEN Fail
       ELSE LET e1 == SkipSpace(s, k.end)
            IN IF e1 > Len(s) \/ s[e1] # ":" THEN Fail
               ELSE LET val == scan_once(s, SkipSpace(s, e1 + 1))
                    IN IF ~val.ok THEN Fail
                       ELSE LET e3 == SkipSpace(s, val.end)
                                more == Append(pairs, <<k.val.v, val.val>>)
                            IN IF e3 > Len(s) THEN Fail
                               ELSE IF s[e3] = "}" THEN Ok(Obj(more), e3 + 1)
                               ELSE IF s[e3] # "," THEN Fail
                               ELSE LET e4 == SkipSpace(s, e3 + 1)
                                    IN IF e4 > Len(s) \/ s[e4] # "\"" THEN Fail
                                       ELSE JSONObject(s, e4 + 1, more)

\* json.decoder.JSONArray, the loop over items: end is the position of the
\* next item
JSONArray(s, end, items) ==
    LET val == scan_once(s, end)
    IN IF ~val.ok THEN Fail
       ELSE LET e1 == SkipSpace(s, val.end)
                more == Append(items, val.val)
            IN IF e1 > Len(s) THEN Fail
               ELSE IF s[e1] = "]" THEN Ok(Arr(more), e1 + 1)
               ELSE IF s[e1] # "," THEN Fail
               ELSE JSONArray(s, SkipSpace(s, e1 + 1), more)

\* json.loads(s) for a str s: the whole text must be one value
json_loads_str(s) ==
    LET r == scan_once(s, SkipSpace(s, 1))
    IN IF r.ok /\ SkipSpace(s, r.end) = Len(s) + 1 THEN r.val
       ELSE Raise("JSONDecodeError")

\* json.loads(x): anything but a str (bytes do not occur) is a TypeError
json_loads(x) ==
    IF x.t = "str" THEN json_loads_str(x.v) ELSE Raise("TypeError")

\* dict.get(key, default) on a decoded object: the last member wins
dict_get(pairs, key, default) ==
    LET hits == {i \in 1..Len(pairs) : pairs[i][1] = key}
    IN IF hits = {} THEN default
       ELSE pairs[CHOOSE i \in hits : \A j \in hits : i >= j][2]

\* x.get(key, default): only a dict has the method
py_get(x, key, default) ==
    IF x.t = "obj" THEN dict_get(x.v, key, default) ELSE Raise("AttributeError")

-----------------------------------------------------------------------------
(* LogParser._extract_bill_info *)

\* a dict returned by the parser: v is a function from the keys present
Dict(fields) == [t |-> "dict", v |-> fields]

\* except (json.JSONDecodeError, AttributeError): pass
bill_except == {"JSONDecodeError", "AttributeError"}

\* One of the two "if ..._str: try: ... except ...: pass" blocks gives the
\* candidate it appends to bill_matches (PyNone when it appends nothing), or
\* the exception that leaves the block.  The block is taken in steps, each
\* handed the value the step before it computed.

\* "if bill_str:" and the call of _find_bill_list; text.find on an int, a
\* list or a dict is an AttributeError
bill_source_inner(inner) ==
    IF IsRaise(inner) THEN (IF inner.v \in bill_except THEN PyNone ELSE inner)
    ELSE IF ~Truthy(inner) THEN PyNone
    ELSE IF inner.t # "str"
         THEN (IF "AttributeError" \in bill_except THEN PyNone
               ELSE Raise("AttributeError"))
    ELSE find_bill_list(inner.v)

\* the try body once json.loads has returned or raised
bill_source_decoded(decoded, inner_key) ==
    IF IsRaise(decoded) THEN (IF decoded.v \in bill_except THEN PyNone ELSE decoded)
    ELSE bill_source_inner(py_get(decoded, inner_key, Str(<<>>)))

\* "if analysis_result_str:" and the try statement under it
bill_source_str(outer_str, inner_key) ==
    IF ~Truthy(outer_str) THEN PyNone
    ELSE bill_source_decoded(json_loads(outer_str), inner_key)

bill_source(pairs, outer_key, inner_key) ==
    bill_source_str(dict_get(pairs, outer_key, Str(<<>>)), inner_key)

\* bill_matches after both blocks ran
bill_matches(c1, c2) ==
    (IF Truthy(c1) THEN <<c1>> ELSE <<>>) \o (IF Truthy(c2) THEN <<c2>> ELSE <<>>)

\* "if bill_matches: return bill_matches[-1]", else "return None"
last_match(matches) ==
    IF matches # <<>> THEN matches[Len(matches)] ELSE PyNone

\* the outcome of the two blocks, in the order the code runs them
bill_result(c1, c2) ==
    IF IsRaise(c1) THEN c1
    ELSE IF IsRaise(c2) THEN c2
    ELSE last_match(bill_matches(c1, c2))

extract_bill_info(pairs) ==
    bill_result(bill_source(pairs, <<"analysisResult">>, <<"message_interpretation">>),
                bill_source(pairs, <<"promptParam">>, <<"reference">>))

-----------------------------------------------------------------------------
(* field_extractor.py *)

\* variant that returns the three core fields only
extract_fields_core(pairs, bill_info) ==
    IF IsRaise(bill_info) THEN bill_info
    ELSE Dict([query |-> OrNone(dict_get(pairs, <<"messageUser">>, PyNone)),
               bill_info |-> bill_info,
               reply |-> OrNone(dict_get(pairs, <<"reply">>, PyNone))])

\* the result dict, once _extract_bill_info has returned or raised
extract_fields(pairs, bill_info) ==
    IF IsRaise(bill_info) THEN bill_info
    ELSE Dict([query |-> OrNone(dict_get(pairs, <<"messageUser">>, PyNone)),
               bill_info |-> bill_info,
               reply |-> OrNone(dict_get(pairs, <<"reply">>, PyNone)),
               user_id |-> dict_get(pairs, <<"userId">>, PyNone),
               session_id |-> OrNone(dict_get(pairs, <<"sessionId">>, Str(<<>>))),
               user_intention |-> OrNone(dict_get(pairs, <<"userIntention">>, Str(<<>>))),
               success_flag |-> dict_get(pairs, <<"successFlag">>, PyNone)])

\* log_data is any decoded JSON value; .get exists on a dict only
extract_fields_from_log_data(data) ==
    IF data.t # "obj" THEN Raise("AttributeError")
    ELSE extract_fields(data.v, extract_bill_info(data.v))

create_empty_result == Dict([query |-> PyNone, bill_info |-> PyNone, reply |-> PyNone])

-----------------------------------------------------------------------------
(* LogParser._fallback_parse *)

DQ == "\""
BS == "\\"

\* r'"<key>"\s*:\s*"([^"]*)"' matched at position i: [ok, group]
quoted_match_at(line, key, i) ==
    LET colon == SkipSpace(line, i + 3)
        open == SkipSpace(line, colon + 1)
        close == Find(line, <<DQ>>, open + 1)
    IN IF /\ Matches(line, <<DQ, key, DQ>>, i)
          /\ colon <= Len(line) /\ line[colon] = ":"
          /\ open <= Len(line) /\ line[open] = DQ
          /\ close # 0
       THEN [ok |-> TRUE, group |-> SubSeq(line, open + 1, close - 1)]
       ELSE [ok |-> FALSE, group |-> <<>>]

\* variant that takes the rightmost position where the pattern matches
quoted_search_rightmost(line, key) ==
    LET hits == {i \in 1..Len(line) : quoted_match_at(line, key, i).ok}
    IN IF hits = {} THEN [ok |-> FALSE, group |-> <<>>]
       ELSE quoted_match_at(line, key, CHOOSE i \in hits : \A j \in hits : i >= j)

\* re.search of that pattern: the leftmost position where it matches
quoted_search(line, key) ==
    LET hits == {i \in 1..Len(line) : quoted_match_at(line, key, i).ok}
    IN IF hits = {} THEN [ok |-> FALSE, group |-> <<>>]
       ELSE quoted_match_at(line, key, CHOOSE i \in hits : \A j \in hits : i <= j)

\* r'"userId"\s*:\s*(\d+)' matched at position i: [ok, val] with val = int(group)
user_id_match_at(line, i) ==
    LET colon == SkipSpace(line, i + 3)
        first == SkipSpace(line, colon + 1)
    IN IF /\ Matches(line, <<DQ, "userId", DQ>>, i)
          /\ colon <= Len(line) /\ line[colon] = ":"
          /\ first <= Len(line) /\ line[first] \in Digits
       THEN [ok |-> TRUE, val |-> digit_run(line, first, 0).val]
       ELSE [ok |-> FALSE, val |-> 0]

user_id_search(line) ==
    LET hits == {i \in 1..Len(line) : user_id_match_at(line, i).ok}
    IN IF hits = {} THEN [ok |-> FALSE, val |-> 0]
       ELSE user_id_match_at(line, CHOOSE i \in hits : \A j \in hits : i <= j)

\* r'<bill_keyword>\s*(\[.*?\])' with re.DOTALL matched at position i
bill_match_at(line, i) ==
    LET open == SkipSpace(line, i + Len(bill_keyword))
        close == Find(line, <<"]">>, open + 1)
    IN IF /\ Matches(line, bill_keyword, i)
          /\ open <= Len(line) /\ line[open] = "["
          /\ close # 0
       THEN [ok |-> TRUE, group |-> SubSeq(line, open, close)]
       ELSE [ok |-> FALSE, group |-> <<>>]

\* variant that takes the rightmost position where the pattern matches
bill_search_rightmost(line) ==
    LET hits == {i \in 1..Len(line) : bill_match_at(line, i).ok}
    IN IF hits = {} THEN [ok |-> FALSE, group |-> <<>>]
       ELSE bill_match_at(line, CHOOSE i \in hits : \A j \in hits : i >= j)

\* re.search of that pattern: the leftmost position where it matches
bill_search(line) ==
    LET hits == {i \in 1..Len(line) : bill_match_at(line, i).ok}
    IN IF hits = {} THEN [ok |-> FALSE, group |-> <<>>]
       ELSE bill_match_at(line, CHOOSE i \in hits : \A j \in hits : i <= j)

RECURSIVE reply_scan(_, _, _)
\* the while loop looking for the closing quote of the reply value: the
\* value_end it stops at (Len(line) + 1 when it runs off the line).  The
\* escaped flag is toggled by a backslash and by nothing else.
\* (The other characters change nothing and are stepped over.)
reply_scan(line, from, escaped) ==
    LET value_end == NextIn(line, from, {BS, DQ})
        next_char_pos == SkipSpace(line, value_end + 1)
    IN IF value_end > Len(line) THEN value_end
       ELSE IF line[value_end] = BS THEN reply_scan(line, value_end + 1, ~escaped)
       ELSE IF /\ ~escaped
               /\ next_char_pos <= Len(line)
               /\ line[next_char_pos] \in {",", "}", "\n"}
            THEN value_end
       ELSE reply_scan(line, value_end + 1, escaped)

\* the "reply" block: [ok, val]
reply_extract(line) ==
    LET reply_start == Find(line, <<DQ, "reply", DQ, ":">>, 1)
        quote == Find(line, <<DQ>>, reply_start + 4)
        value_start == quote + 1
        value_end == reply_scan(line, value_start, FALSE)
    IN IF reply_start # 0 /\ quote # 0 /\ value_end <= Len(line)
       THEN [ok |-> TRUE,
             val |-> Replace(Replace(SubSeq(line, value_start, value_end - 1),
                                     <<BS, DQ>>, <<DQ>>),
                             <<BS, BS>>, <<BS>>)]
       ELSE [ok |-> FALSE, val |-> <<>>]

\* variant without the three "if ... not in result" defaults
fallback_parse_matched(line) ==
    LET query_match == quoted_search(line, "messageUser")
        reply_found == reply_extract(line)
        bill_match == bill_search(line)
        keys == (IF query_match.ok THEN {"query"} ELSE {})
                \cup (IF reply_found.ok THEN {"reply"} ELSE {})
                \cup (IF bill_match.ok THEN {"bill_info"} ELSE {})
    IN Dict([k \in keys |->
              CASE k = "query" -> Str(query_match.group)
                [] k = "reply" -> Str(reply_found.val)
                [] k = "bill_info" -> Str(bill_match.group)])

\* the keys the scanner always sets, then the ones it sets on a match
fallback_parse(line) ==
    LET query_match == quoted_search(line, "messageUser")
        reply_found == reply_extract(line)
        bill_match == bill_search(line)
        user_id_match == user_id_search(line)
        session_match == quoted_search(line, "sessionId")
        intention_match == quoted_search(line, "userIntention")
        keys == {"query", "bill_info", "reply"}
                \cup (IF user_id_match.ok THEN {"user_id"} ELSE {})
                \cup (IF session_match.ok THEN {"session_id"} ELSE {})
                \cup (IF intention_match.ok THEN {"user_intention"} ELSE {})
    IN Dict([k \in keys |->
              CASE k = "query" ->
                     IF query_match.ok THEN Str(query_match.group) ELSE PyNone
                [] k = "reply" ->
                     IF reply_found.ok THEN Str(reply_found.val) ELSE PyNone
                [] k = "bill_info" ->
                     IF bill_match.ok THEN Str(bill_match.group) ELSE PyNone
                [] k = "user_id" -> Num(user_id_match.val)
                [] k = "session_id" -> Str(session_match.group)
                [] k = "user_intention" -> Str(intention_match.group)])

-----------------------------------------------------------------------------
(* LogParser.parse_log_line *)

\* An outcome is what the call hands back (a Dict, PyNone, or Raise(e) when
\* an exception leaves it) and the stages the call went through.
Outcome(val, path) == [val |-> val, path |-> path]

RECURSIVE brace_scan_first_close(_, _, _)
\* variant that ends at the first '}' whatever the count is
brace_scan_first_close(json_str, from, brace_count) ==
    LET i == NextIn(json_str, from, {"}"})
    IN IF i > Len(json_str) THEN Len(json_str) ELSE i

RECURSIVE brace_scan(_, _, _)
\* the for loop over enumerate(json_str): json_end is the position of the '}'
\* at which brace_count returns to 0, len(json_str) when there is none
\* (the characters that are no brace change nothing and are stepped over)
brace_scan(json_str, from, brace_count) ==
    LET i == NextIn(json_str, from, {"{", "}"})
    IN IF i > Len(json_str) THEN Len(json_str)
       ELSE IF json_str[i] = "{" THEN brace_scan(json_str, i + 1, brace_count + 1)
       ELSE IF brace_count - 1 = 0 THEN i
       ELSE brace_scan(json_str, i + 1, brace_count - 1)

\* lines 33-45: the text from which the brace scan starts; [found, json_str]
locate_start(line) ==
    LET last_dash_pos == RFind(line, <<" ", "-", " ">>)
        json_start == Find(line, <<"{">>, 1)
    IN IF last_dash_pos # 0
       THEN [found |-> TRUE, json_str |-> From(line, last_dash_pos + 3)]
       ELSE IF json_start = 0 THEN [found |-> FALSE, json_str |-> <<>>]
       ELSE [found |-> TRUE, json_str |-> From(line, json_start)]

\* lines 47-60: the candidate handed to json.loads
candidate(line) ==
    LET json_str == locate_start(line).json_str
    IN SubSeq(json_str, 1, brace_scan(json_str, 1, 0))

\* lines 62-75: the inner try, once json.loads has returned or raised
parse_decoded(line, decoded) ==
    IF IsRaise(decoded)
    \* except json.JSONDecodeError of the inner try; the scanner always
    \* returns a dict, so line 71 is not reached
    THEN Outcome(fallback_parse(line), <<"locate", "decode_failed", "fallback">>)
    ELSE Outcome(extract_fields_from_log_data(decoded), <<"locate", "decoded", "extract">>)

\* lines 35-75, on the stripped line
parse_stripped(line) ==
    IF ~locate_start(line).found THEN Outcome(PyNone, <<"locate", "return_none">>)
    ELSE parse_decoded(line, json_loads_str(candidate(line)))

\* lines 31-75, the body of the outer try
parse_try(log_line_arg) == parse_stripped(Strip(log_line_arg))

\* lines 83-88: the repaired text decoded, the fields extracted or raised
repair_result(result, path) ==
    IF IsRaise(result)
    THEN Outcome(create_empty_result, path \o <<"quote_repair", "empty">>)
    ELSE Outcome(result, path \o <<"quote_repair", "extract">>)

\* lines 81-88: json.loads on the repaired text has returned or raised
repair_decoded(decoded, path) ==
    IF IsRaise(decoded)
    THEN Outcome(create_empty_result, path \o <<"quote_repair", "empty">>)
    ELSE repair_result(extract_fields_from_log_data(decoded), path)

\* lines 77-88: the handler of the outer try for json.JSONDecodeError
quote_repair(log_line_arg, path) ==
    repair_decoded(
        json_loads_str(Replace(candidate(Strip(log_line_arg)), <<"'">>, <<DQ>>)),
        path)

\* variant without the "except Exception" clause of the outer try
outer_handlers_uncaught(tried, log_line_arg) ==
    IF ~IsRaise(tried.val) THEN tried
    ELSE IF tried.val.v = "JSONDecodeError"
         THEN quote_repair(log_line_arg, tried.path)
    ELSE tried

\* lines 77-91: the except clauses of the outer try, given what its body did
outer_handlers(tried, log_line_arg) ==
    IF ~IsRaise(tried.val) THEN tried
    ELSE IF tried.val.v = "JSONDecodeError"
         THEN quote_repair(log_line_arg, tried.path)
    ELSE Outcome(create_empty_result, tried.path \o <<"except", "empty">>)

parse_log_line(log_line_arg) ==
    outer_handlers(parse_try(log_line_arg), log_line_arg)

-----------------------------------------------------------------------------
(* LogParser.parse_log_file and LogParser.parse_log_file_stream *)

\* variant numbering the lines from 0, as enumerate(f) without a start does
attach_line_number_from0(parsed, line_num_arg) ==
    Dict([k \in DOMAIN parsed.v \cup {"line_number"} |->
            IF k = "line_number" THEN Num(line_num_arg - 1) ELSE parsed.v[k]])

\* parsed_data['line_number'] = line_num
attach_line_number(parsed, line_num_arg) ==
    Dict([k \in DOMAIN parsed.v \cup {"line_number"} |->
            IF k = "line_number" THEN Num(line_num_arg) ELSE parsed.v[k]])

\* "if parsed_data is not None:" the record is numbered and kept
loop_record(parsed_data, n) ==
    IF parsed_data.t = "dict" THEN <<attach_line_number(parsed_data, n)>> ELSE <<>>

\* "if not line: continue", then the stripped line is parsed
loop_line(line, n) ==
    IF line = <<>> THEN <<>> ELSE loop_record(parse_log_line(line).val, n)

\* One pass of "for line_num, line in enumerate(f, 1)" on line number n: the
\* records it adds (none for a blank line or a None result).
loop_body(lines, n) == loop_line(Strip(lines[n]), n)

\* print(f"... {line_num} ..."): the line of the console for a None result
warning(n) == [msg |-> "line_failed", line |-> n]

RECURSIVE warnings(_, _, _)
\* what the passes on lines a..b print when none of them has a record: a
\* blank line is skipped, a line whose result is None prints the warning
warnings(lines, a, b) ==
    IF a > b THEN <<>>
    ELSE (IF Strip(lines[a]) # <<>> THEN <<warning(a)>> ELSE <<>>)
         \o warnings(lines, a + 1, b)

\* the line the except clauses print: one text for FileNotFoundError, another
\* for every other exception
file_error(how) ==
    IF how = "not_found" THEN [msg |-> "file_not_found", line |-> 0]
    ELSE [msg |-> "read_error", line |-> 0]

RECURSIVE next_yield(_, _)
\* the generator resumed after line n: the number of the next line that
\* yields a record, Len(lines) + 1 when the file is exhausted first
next_yield(lines, n) ==
    IF n + 1 > Len(lines) THEN Len(lines) + 1
    ELSE IF loop_body(lines, n + 1) # <<>> THEN n + 1
    ELSE next_yield(lines, n + 1)

-----------------------------------------------------------------------------
(* LogParser.save_results and LogParser.save_results_stream, formats json  *)
(* and csv.  The output file is [created, data]: data is the text written  *)
(* (json), or the rows written, each the sequence of its cells as the csv  *)
(* writer emits them (the writer joins the cells with ',' and ends the row *)
(* with '\r\n').                                                           *)

NoFile == [created |-> FALSE, data |-> <<>>]
File(data) == [created |-> TRUE, data |-> data]

\* the keys of a record in the order the dict holds them (the order in which
\* field_extractor inserts them, line_number last)
KeyOrder == <<"query", "bill_info", "reply", "user_id", "session_id",
              "user_intention", "success_flag", "line_number">>
keys_of(record) == SelectSeq(KeyOrder, LAMBDA k : k \in DOMAIN record.v)

\* sorted(keys)
SortedKeys == <<"bill_info", "line_number", "query", "reply", "session_id",
                "success_flag", "user_id", "user_intention">>
sorted_keys(keys) == SelectSeq(SortedKeys, LAMBDA k : k \in keys)

RECURSIVE int_str(_)
\* str(n) for an int n >= 0
int_str(n) ==
    IF n < 10 THEN <<DigitChars[n + 1]>>
    ELSE int_str(n \div 10) \o <<DigitChars[(n % 10) + 1]>>

RECURSIVE encode_chars(_)
\* json.encoder.py_encode_basestring (ensure_ascii=False): the replacements
encode_chars(s) ==
    IF s = <<>> THEN <<>>
    ELSE (CASE Head(s) = DQ -> <<BS, DQ>>
            [] Head(s) = BS -> <<BS, BS>>
            [] Head(s) = "\n" -> <<BS, "n">>
            [] OTHER -> <<Head(s)>>)
         \o encode_chars(Tail(s))

encode_basestring(s) == <<DQ>> \o encode_chars(s) \o <<DQ>>

RECURSIVE Spaces(_)
Spaces(n) == IF n = 0 THEN <<>> ELSE <<" ">> \o Spaces(n - 1)

\* '\n' + ' ' * (indent * level), indent = 2
newline_indent(level) == <<"\n">> \o Spaces(2 * level)

\* _iterencode on a value of a record: a str, an int or None
iterencode_scalar(x) ==
    CASE x.t = "str" -> encode_basestring(x.v)
      [] x.t = "num" -> IF x.v < 0 THEN <<"-">> \o int_str(0 - x.v) ELSE int_str(x.v)
      [] x.t = "none" -> <<"null">>

RECURSIVE iterencode_members(_, _, _, _)
\* _iterencode_dict, the loop over the items: item separator ',' and key
\* separator ': ' (the defaults when indent is given)
iterencode_members(record, keys, k, level) ==
    IF k > Len(keys) THEN <<>>
    ELSE (IF k > 1 THEN <<",">> ELSE <<>>)
         \o newline_indent(level)
         \o encode_basestring(<<keys[k]>>) \o <<":", " ">>
         \o iterencode_scalar(record.v[keys[k]])
         \o iterencode_members(record, keys, k + 1, level)

\* _iterencode_dict
iterencode_dict(record, level) ==
    IF DOMAIN record.v = {} THEN <<"{", "}">>
    ELSE <<"{">> \o iterencode_members(record, keys_of(record), 1, level + 1)
         \o newline_indent(level) \o <<"}">>

RECURSIVE iterencode_items(_, _, _)
\* _iterencode_list, the loop over the items
iterencode_items(records, k, level) ==
    IF k > Len(records) THEN <<>>
    ELSE (IF k > 1 THEN <<",">> ELSE <<>>)
         \o newline_indent(level)
         \o iterencode_dict(records[k], level)
         \o iterencode_items(records, k + 1, level)

\* _iterencode_list
iterencode_list(records, level) ==
    IF records = <<>> THEN <<"[", "]">>
    ELSE <<"[">> \o iterencode_items(records, 1, level + 1)
         \o newline_indent(level) \o <<"]">>

\* json.dump(results, f, ensure_ascii=False, indent=2)
json_dump_list(records) == iterencode_list(records, 0)

\* json.dump(result, f, ensure_ascii=False, indent=2)
json_dump_record(record) == iterencode_dict(record, 0)

\* variant that writes the separator before every record
stream_separator_always(written) == <<",", "\n">>

\* "if not first: f.write(',\n')"
stream_separator(written) == IF written = 0 THEN <<>> ELSE <<",", "\n">>

\* variant that writes str(v) for None
blank_none_str(v) == IF v.t = "none" THEN Str(<<"None">>) ELSE v

\* "if v is None: row[k] = '' else: row[k] = v"
blank_none(v) == IF v.t = "none" THEN Str(<<>>) ELSE v

\* the row dict built from a record
row_of(record) == [k \in DOMAIN record.v |-> blank_none(record.v[k])]

\* csv.DictWriter._dict_to_list: extrasaction='raise', restval=''
dict_to_list(names, row) ==
    IF DOMAIN row \ {names[i] : i \in 1..Len(names)} # {} THEN Raise("ValueError")
    ELSE Arr([i \in 1..Len(names) |->
                IF names[i] \in DOMAIN row THEN row[names[i]] ELSE Str(<<>>)])

RECURSIVE double_quotes(_)
\* the quote character doubled inside a quoted field
double_quotes(s) ==
    IF s = <<>> THEN <<>>
    ELSE (IF Head(s) = DQ THEN <<DQ, DQ>> ELSE <<Head(s)>>) \o double_quotes(Tail(s))

\* the csv writer on one field, QUOTE_MINIMAL: None is written as '', a
\* number as str(number); a field holding the delimiter, the quote character
\* or a line break is quoted
csv_text(v) ==
    CASE v.t = "str" -> v.v
      [] v.t = "num" -> IF v.v < 0 THEN <<"-">> \o int_str(0 - v.v) ELSE int_str(v.v)
      [] v.t = "none" -> <<>>

csv_quote(txt) ==
    IF \E i \in DOMAIN txt : txt[i] \in {",", DQ, "\n", "\r"}
    THEN <<DQ>> \o double_quotes(txt) \o <<DQ>>
    ELSE txt

csv_field(v) == csv_quote(csv_text(v))

\* writer.writerow on a list of values
csv_cells(values) == [i \in 1..Len(values) |-> csv_field(values[i])]

\* writer.writeheader(): the row of the field names
csv_header(names) == [i \in 1..Len(names) |-> csv_quote(<<names[i]>>)]

\* writer.writerow(row) of a DictWriter: the row written, or the exception
csv_writerow(names, row_list) ==
    IF IsRaise(row_list) THEN row_list ELSE Arr(csv_cells(row_list.v))

RECURSIVE csv_rows(_, _, _)
\* save_results, lines 383-391: one row per record
csv_rows(records, names, k) ==
    IF k > Len(records) THEN <<>>
    ELSE <<csv_writerow(names, dict_to_list(names, row_of(records[k]))).v>>
         \o csv_rows(records, names, k + 1)

\* every key of every record: fieldnames.update(result.keys())
all_keys(records) == UNION {DOMAIN records[k].v : k \in 1..Len(records)}

\* save_results, format csv, on a non-empty list
save_csv(records, names) == File(<<csv_header(names)>> \o csv_rows(records, names, 1))

\* save_results(results, output_path, format): the output file after the call
save_results(records, fmt) ==
    IF fmt = "json" THEN File(json_dump_list(records))
    ELSE IF records = <<>> THEN NoFile
    ELSE save_csv(records, sorted_keys(all_keys(records)))

\* save_results_stream, one pass of "for result in results_stream" in format
\* json: the text appended to the file
stream_json_pass(record, written) ==
    stream_separator(written) \o json_dump_record(record)

\* save_results_stream, format csv: the field names after the pass
stream_fieldnames(names, record) ==
    IF names.t = "none" THEN Arr(sorted_keys(DOMAIN record.v)) ELSE names

\* save_results_stream, format csv: the rows the pass appends when names was
\* None before it (the header) and the row of the record, or the exception
stream_header(names, now) == IF names.t = "none" THEN <<csv_header(now)>> ELSE <<>>

stream_row(now, record) == csv_writerow(now, dict_to_list(now, row_of(record)))

\* the for statement asks the iterator for the next record when the body of
\* the previous pass has finished: every record received has been written
pull_ahead(written, produced) == TRUE

pull_allowed(written, produced) == written = produced

-----------------------------------------------------------------------------
(* Inputs *)

MaxText == 5
MaxRaw == 5
MaxLines == 4

SeqsUpTo(alphabet, n) == UNION {[1..k -> alphabet] : k \in 0..n}

Marker == "zhangdan:"

\* texts searched by _find_bill_list
BillAlphabet == {Marker, "[", "]", " ", "a"}
Texts == SeqsUpTo(BillAlphabet, MaxText)

\* json.dumps with separators (',', ':'), for the values the inputs are made of
Absent == [t |-> "absent", v |-> 0]
Present(members) == SelectSeq(members, LAMBDA m : m[2] # Absent)

RECURSIVE escape_str(_)
escape_str(s) ==
    LET hit == NextIn(s, 1, {DQ, BS})
    IN IF hit > Len(s) THEN s
       ELSE SubSeq(s, 1, hit - 1) \o <<BS, s[hit]>> \o escape_str(From(s, hit + 1))

RECURSIVE dumps(_)
RECURSIVE dumps_members(_, _)
dumps(x) ==
    CASE x.t = "str" -> <<DQ>> \o escape_str(x.v) \o <<DQ>>
      [] x.t = "num" -> IF x.v = 0 THEN <<"0">> ELSE <<"5">>
      [] x.t = "none" -> <<"null">>
      [] x.t = "obj" -> <<"{">> \o dumps_members(x.v, 1) \o <<"}">>

dumps_members(pairs, k) ==
    IF k > Len(pairs) THEN <<>>
    ELSE (IF k > 1 THEN <<",">> ELSE <<>>)
         \o <<DQ>> \o escape_str(pairs[k][1]) \o <<DQ, ":">> \o dumps(pairs[k][2])
         \o dumps_members(pairs, k + 1)

\* texts of message_interpretation and reference
T_one == <<"a", Marker, "[", "a", "]", "a">>
T_other == <<Marker, "[", "q", "]">>
T_two == <<Marker, "[", "a", "]", " ", Marker, "[", "q", "]">>
T_truncated == <<Marker, "[", "q", "]", Marker, "[", "a">>
T_nested == <<Marker, " ", "[", "[", "a", "]", "]">>
T_braces == <<Marker, "[", "{", "'", "a", "'", "}", "]">>
T_close_brace == <<Marker, "[", "}", "]">>
T_no_marker == <<"a">>
BillTexts == {T_one, T_other, T_two, T_truncated, T_nested, T_braces,
              T_close_brace, T_no_marker}

\* what a payload may hold under analysisResult or promptParam
NestedVals(inner_key) ==
    {Str(dumps(Obj(<< <<inner_key, Str(t)>> >>))) : t \in BillTexts}
    \cup {Absent,
          Str(<<>>),
          Str(<<"a">>),
          Str(dumps(Num(5))),
          Str(dumps(Obj(<<>>))),
          Str(dumps(Obj(<< <<inner_key, Num(5)>> >>))),
          Num(5),
          Obj(<< <<inner_key, Str(T_one)>> >>)}

\* the dicts handed to _extract_bill_info
LogDatas ==
    {Obj(Present(<< <<(<<"analysisResult">>), ar>>, <<(<<"promptParam">>), pp>> >>)) :
        ar \in NestedVals(<<"message_interpretation">>),
        pp \in NestedVals(<<"reference">>)}


\* lines handed to parse_log_line: every short text over RawAlphabet, ...
RawAlphabet == {" ", "-", "{", "}", "a"}
RawLines == SeqsUpTo(RawAlphabet, MaxRaw)

\* ... lines picked for what follows the separator, ...
S_no_brace_query == <<"a", " ", "-", " ", DQ, "messageUser", DQ, ":", " ", DQ, "q", DQ>>
S_single_quoted == <<"a", " ", "-", " ", "{", "'", "messageUser", "'", ":", "'", "q", "'", "}">>
S_number == <<"a", " ", "-", " ", "5">>
S_string == <<"a", " ", "-", " ", DQ, "a", DQ>>
S_array == <<"[", "{", "}", "]", " ", "-", " ", "[", "5", "]">>
S_null == <<"a", " ", "-", " ", "null">>
S_unescaped == <<"{", DQ, "messageUser", DQ, ":", DQ, "q", DQ, ",",
                 DQ, "analysisResult", DQ, ":", DQ, "{", DQ, "message_interpretation", DQ,
                 ":", DQ, Marker, "[", "a", "]", DQ, "}", DQ, ",",
                 DQ, "reply", DQ, ":", DQ, "r", DQ, "}">>
SampleLines == {S_no_brace_query, S_single_quoted, S_number, S_string, S_array,
                S_null, S_unescaped}

\* ... and a log prefix followed by the encoding of a payload object.
MuVals == {Absent, Str(<<>>), Str(<<"q">>), Str(<<"q", DQ, "}">>)}
ReplyVals == {Absent, Str(<<"r">>), Str(<<"r", " ", "-", " ", "r">>)}
ArVals == NestedVals(<<"message_interpretation">>)
PpVals == {Absent, Num(5), Str(<<"a">>)}
          \cup {Str(dumps(Obj(<< <<(<<"reference">>), Str(t)>> >>))) :
                  t \in {T_one, T_other, T_no_marker}}
AuxVals == {Absent, Num(5)}
Prefixes == {<<>>, <<"a", " ", "-", " ">>, <<"{", "a", "}", " ">>}

MkPayload(mu, rp, ar, pp, aux) ==
    Obj(Present(<< <<(<<"messageUser">>), mu>>,
                   <<(<<"reply">>), rp>>,
                   <<(<<"analysisResult">>), ar>>,
                   <<(<<"promptParam">>), pp>>,
                   <<(<<"userId">>), aux>>,
                   <<(<<"sessionId">>), IF aux = Absent THEN Absent ELSE Str(<<"a">>)>>,
                   <<(<<"userIntention">>), IF aux = Absent THEN Absent ELSE Str(<<"a">>)>>,
                   <<(<<"successFlag">>), aux>> >>))

Payloads ==
    {MkPayload(mu, rp, ar, pp, aux) :
        mu \in MuVals, rp \in ReplyVals, ar \in ArVals, pp \in PpVals, aux \in AuxVals}

\* ... lines with one or two "messageUser" members, most of them undecodable, ...
QueryPrefixes == {<<"{">>,
                  <<"a", " ", "-", " ", "{">>,
                  <<"{", DQ, "messageUser", DQ, ":", DQ, "p", DQ, ",">>,
                  <<"{", DQ, "messageUser", DQ, ":", "5", ",">>}
QuerySpaces == {<<>>, <<" ">>}
QueryTexts == {<<>>, <<"q">>, <<"q", " ", "'">>, <<"q", BS>>}
QuerySuffixes == {<<>>,
                  <<"}">>,
                  <<",", "a", "}">>,
                  <<",", DQ, "reply", DQ, ":", DQ, "r", DQ, "r", DQ, "}">>}
QueryLines ==
    {pre \o <<DQ, "messageUser", DQ>> \o s1 \o <<":">> \o s2 \o <<DQ>> \o v \o <<DQ>> \o post :
        pre \in QueryPrefixes, s1 \in QuerySpaces, s2 \in QuerySpaces,
        v \in QueryTexts, post \in QuerySuffixes}

\* ... lines that open a "reply" member and go on with every short text over
\* ReplyAlphabet, and some longer ones ("rdquo" is a typographic quote)
MaxReply == 4
ReplyAlphabet == {DQ, BS, ",", "}", " ", "r"}
ReplyOpen == <<"{", DQ, "reply", DQ, ":", DQ>>
R_typographic == ReplyOpen \o <<"r", "rdquo", "r", "rdquo", DQ, ",", "a">>
R_inner_quote == ReplyOpen \o <<"r", DQ, "r", DQ, "r", DQ, "}", "a">>
R_one_escape == ReplyOpen \o <<"r", BS, DQ, "r", DQ, ",", "a">>
R_two_escapes == ReplyOpen \o <<"r", BS, DQ, "r", BS, DQ, "r", DQ, "}", "a">>
R_escaped_backslash == ReplyOpen \o <<"r", BS, BS, DQ, ",", "a">>
R_newline == ReplyOpen \o <<"r", DQ, "\n", "a", DQ, "\n", ",">>
R_spaced_value == <<"{", DQ, "reply", DQ, ":", " ", DQ, "r", DQ, " ", "}", "a">>
R_not_a_string == <<"{", DQ, "reply", DQ, ":", "5", ",", DQ, "a", DQ, ":", DQ, "r", DQ, ",">>
ReplyLines ==
    {ReplyOpen \o body : body \in SeqsUpTo(ReplyAlphabet, MaxReply)}
    \cup {R_typographic, R_inner_quote, R_one_escape, R_two_escapes,
          R_escaped_backslash, R_newline, R_spaced_value, R_not_a_string}

\* undecodable lines with markers and brackets, nested and repeated
MaxBillLine == 5
BillLineAlphabet == {Marker, "[", "]", " "}
BillLines == {<<"{">> \o t : t \in SeqsUpTo(BillLineAlphabet, MaxBillLine)}

\* an input of parse_log_line: the line, and what it was made of
NoPayload == [obj |-> PyNone, prefix |-> <<>>]
LineInputs ==
    {[line |-> l, from |-> NoPayload] :
        l \in RawLines \cup SampleLines \cup QueryLines \cup ReplyLines
              \cup BillLines}
    \cup {[line |-> pre \o dumps(o), from |-> [obj |-> o, prefix |-> pre]] :
            o \in Payloads, pre \in Prefixes}

\* the lines of a file, before the newline is stripped
FileLineSet == {<<" ">>, <<"a">>, <<" ", "{", "}">>, <<"a", " ", "-", " ", "a">>, S_number}
Files == SeqsUpTo(FileLineSet, MaxLines)

\* records handed to the sinks: the key sets of the three tiers, with strings
\* that hold a quote, a comma, a backslash, a line break and the text None
MaxRecords == 3
Rec_full ==
    Dict([query |-> Str(<<"q", DQ, ",">>), bill_info |-> PyNone,
          reply |-> Str(<<"None">>), user_id |-> Num(5), session_id |-> PyNone,
          user_intention |-> Str(<<"r", "\n", "r">>), success_flag |-> Num(0),
          line_number |-> Num(12)])
Rec_core ==
    Dict([query |-> PyNone, bill_info |-> PyNone, reply |-> PyNone,
          line_number |-> Num(1)])
Rec_fallback ==
    Dict([query |-> Str(<<BS, "q">>), bill_info |-> Str(<<"[", "a", "]">>),
          reply |-> PyNone, user_id |-> Num(307), line_number |-> Num(2)])
Rec_plain ==
    Dict([query |-> Str(<<"q">>), bill_info |-> PyNone, reply |-> Str(<<"r">>),
          line_number |-> Num(40)])
SinkRecords == {Rec_full, Rec_core, Rec_fallback, Rec_plain}
RecordSeqs == SeqsUpTo(SinkRecords, MaxRecords)

\* the files streamed into a sink
MaxPipe == 3
PipeFiles == SeqsUpTo(FileLineSet, MaxPipe)

-----------------------------------------------------------------------------
(* Specifications *)

NoOutcome == Outcome(PyNone, <<>>)

\* the variables a specification does not use
IdleBill == text = <<>> /\ bill_str = PyNone
IdleExtract == log_data = Obj(<<>>) /\ extracted = PyNone
IdleLine == log_line = <<>> /\ payload = NoPayload /\ ret = NoOutcome
IdleFile ==
    /\ file_lines = <<>> /\ mode = "none" /\ line_num = 0 /\ results = <<>>
    /\ fault = "none" /\ console = <<>>
IdleSink ==
    /\ format = "none" /\ out = NoFile /\ count = 0 /\ fieldnames = PyNone
    /\ sink_pc = "idle" /\ raised = PyNone
IdleGui ==
    /\ worker_pc = "none" /\ stream = <<>> /\ item = 0 /\ buffered = <<>>
    /\ flush_at = 0 /\ yielded = <<>>
    /\ preview_queue = <<>> /\ preview_polling = FALSE /\ preview_tree = <<>>
    /\ poll_timers = 0 /\ after_queue = <<>> /\ btn_run = "normal" /\ runs = 0

\* SpecBill: _find_bill_list applied to a text
InitBill ==
    /\ pc = "find"
    /\ text \in Texts
    /\ bill_str = PyNone
    /\ IdleExtract /\ IdleLine /\ IdleFile /\ IdleSink
    /\ IdleGui

FindBillList ==
    /\ pc = "find"
    /\ bill_str' = find_bill_list(text)
    /\ pc' = "done"
    /\ UNCHANGED <<text, log_data, extracted, log_line, payload, ret,
                   file_lines, mode, line_num, results>>
    /\ UNCHANGED file_io /\ UNCHANGED sink_vars
    /\ UNCHANGED gui_vars

NextBill == FindBillList
SpecBill == InitBill /\ [][NextBill]_vars

\* SpecExtract: _extract_bill_info applied to a decoded mapping
InitExtract ==
    /\ pc = "extract"
    /\ log_data \in LogDatas
    /\ extracted = PyNone
    /\ IdleBill /\ IdleLine /\ IdleFile /\ IdleSink
    /\ IdleGui

ExtractBillInfo ==
    /\ pc = "extract"
    /\ extracted' = extract_bill_info(log_data.v)
    /\ pc' = "done"
    /\ UNCHANGED <<text, bill_str, log_data, log_line, payload, ret,
                   file_lines, mode, line_num, results>>
    /\ UNCHANGED file_io /\ UNCHANGED sink_vars
    /\ UNCHANGED gui_vars

NextExtract == ExtractBillInfo
SpecExtract == InitExtract /\ [][NextExtract]_vars

\* SpecLine: parse_log_line applied to a line
InitLine ==
    /\ pc = "parse"
    /\ \E inp \in LineInputs : log_line = inp.line /\ payload = inp.from
    /\ ret = NoOutcome
    /\ IdleBill /\ IdleExtract /\ IdleFile /\ IdleSink
    /\ IdleGui

ParseLogLine ==
    /\ pc = "parse"
    /\ ret' = parse_log_line(log_line)
    /\ pc' = "done"
    /\ UNCHANGED <<text, bill_str, log_data, extracted, log_line, payload,
                   file_lines, mode, line_num, results>>
    /\ UNCHANGED file_io /\ UNCHANGED sink_vars
    /\ UNCHANGED gui_vars

NextLine == ParseLogLine
SpecLine == InitLine /\ [][NextLine]_vars

\* SpecFile: a file read in eager or in lazy mode; results is the list
\* parse_log_file builds, or the records the consumer of the generator has
\* been handed so far.  file_lines holds the lines that can be read; fault
\* tells how reading ends: "none" at the end of the file, "not_found" when
\* open() raises FileNotFoundError (no line is read), "read_error" when the
\* iteration raises after the last line of file_lines (a decoding error, an
\* I/O error).
InitFile ==
    /\ pc = "loop"
    /\ file_lines \in Files
    /\ mode \in {"eager", "lazy"}
    /\ line_num = 0
    /\ results = <<>>
    /\ fault \in (IF file_lines = <<>> THEN {"none", "not_found", "read_error"}
                  ELSE {"none", "read_error"})
    /\ console = <<>>
    /\ IdleBill /\ IdleExtract /\ IdleLine /\ IdleSink
    /\ IdleGui

\* parse_log_file: one pass of the for loop
EagerLine ==
    /\ pc = "loop" /\ mode = "eager"
    /\ line_num < Len(file_lines)
    /\ line_num' = line_num + 1
    /\ results' = results \o loop_body(file_lines, line_num + 1)
    /\ console' = console \o (IF results' = results
                               THEN warnings(file_lines, line_num + 1, line_num + 1)
                               ELSE <<>>)
    /\ UNCHANGED <<pc, text, bill_str, log_data, extracted, log_line, payload, ret,
                   file_lines, mode, fault>>
    /\ UNCHANGED sink_vars
    /\ UNCHANGED gui_vars

\* parse_log_file: the file is exhausted, return results
EagerReturn ==
    /\ pc = "loop" /\ mode = "eager"
    /\ line_num = Len(file_lines)
    /\ fault = "none"
    /\ pc' = "done"
    /\ UNCHANGED <<text, bill_str, log_data, extracted, log_line, payload, ret,
                   file_lines, mode, line_num, results>>
    /\ UNCHANGED file_io /\ UNCHANGED sink_vars
    /\ UNCHANGED gui_vars

\* parse_log_file: open() or the iteration raises; the except clause prints
\* and falls through to "return results"
EagerFault ==
    /\ pc = "loop" /\ mode = "eager"
    /\ line_num = Len(file_lines)
    /\ fault # "none"
    /\ console' = Append(console, file_error(fault))
    /\ pc' = "done"
    /\ UNCHANGED <<text, bill_str, log_data, extracted, log_line, payload, ret,
                   file_lines, mode, line_num, results, fault>>
    /\ UNCHANGED sink_vars
    /\ UNCHANGED gui_vars

\* parse_log_file_stream: next() runs the generator up to its next yield
LazyYield ==
    /\ pc = "loop" /\ mode = "lazy"
    /\ \E n \in 1..Len(file_lines) :
          /\ n = next_yield(file_lines, line_num)
          /\ line_num' = n
          /\ results' = results \o loop_body(file_lines, n)
          /\ console' = console \o warnings(file_lines, line_num + 1, n - 1)
    /\ UNCHANGED <<pc, text, bill_str, log_data, extracted, log_line, payload, ret,
                   file_lines, mode, fault>>
    /\ UNCHANGED sink_vars
    /\ UNCHANGED gui_vars

\* parse_log_file_stream: next() runs the generator to the end of the file
LazyExhausted ==
    /\ pc = "loop" /\ mode = "lazy"
    /\ next_yield(file_lines, line_num) > Len(file_lines)
    /\ fault = "none"
    /\ line_num' = Len(file_lines)
    /\ console' = console \o warnings(file_lines, line_num + 1, Len(file_lines))
    /\ pc' = "done"
    /\ UNCHANGED <<text, bill_str, log_data, extracted, log_line, payload, ret,
                   file_lines, mode, results, fault>>
    /\ UNCHANGED sink_vars
    /\ UNCHANGED gui_vars

\* parse_log_file_stream: open() or the iteration raises inside the
\* generator; the except clause prints and the generator ends as if the
\* file were exhausted
LazyFault ==
    /\ pc = "loop" /\ mode = "lazy"
    /\ next_yield(file_lines, line_num) > Len(file_lines)
    /\ fault # "none"
    /\ line_num' = Len(file_lines)
    /\ console' = (console \o warnings(file_lines, line_num + 1, Len(file_lines)))
                  \o <<file_error(fault)>>
    /\ pc' = "done"
    /\ UNCHANGED <<text, bill_str, log_data, extracted, log_line, payload, ret,
                   file_lines, mode, results, fault>>
    /\ UNCHANGED sink_vars
    /\ UNCHANGED gui_vars

NextFile ==
    EagerLine \/ EagerReturn \/ EagerFault \/ LazyYield \/ LazyExhausted \/ LazyFault
SpecFile == InitFile /\ [][NextFile]_vars

\* SpecSink: a sink called on a list of records (eager: save_results on the
\* list; lazy: save_results_stream on an iterator over the list, one pass of
\* its for loop per step).  pc = "done": the source of the records has
\* nothing left to produce beyond results.
InitSink ==
    /\ pc = "done"
    /\ results \in RecordSeqs
    /\ mode \in {"eager", "lazy"}
    /\ format \in {"json", "csv"}
    /\ file_lines = <<>> /\ line_num = 0 /\ fault = "none" /\ console = <<>>
    /\ out = NoFile /\ count = 0 /\ fieldnames = PyNone
    /\ sink_pc = "start" /\ raised = PyNone
    /\ IdleBill /\ IdleExtract /\ IdleLine
    /\ IdleGui

\* save_results(results, output_path, format)
SaveResults ==
    /\ sink_pc = "start" /\ mode = "eager"
    /\ out' = save_results(results, format)
    /\ sink_pc' = "done"
    /\ UNCHANGED <<pc, text, bill_str, log_data, extracted, log_line, payload, ret,
                   file_lines, mode, line_num, results>>
    /\ UNCHANGED file_io
    /\ UNCHANGED <<format, count, fieldnames, raised>>
    /\ UNCHANGED gui_vars

\* save_results_stream: the file is opened; format json writes '[\n'
StreamOpen ==
    /\ sink_pc = "start" /\ mode = "lazy"
    /\ out' = File(IF format = "json" THEN <<"[", "\n">> ELSE <<>>)
    /\ sink_pc' = "loop"
    /\ UNCHANGED <<pc, text, bill_str, log_data, extracted, log_line, payload, ret,
                   file_lines, mode, line_num, results>>
    /\ UNCHANGED file_io
    /\ UNCHANGED <<format, count, fieldnames, raised>>
    /\ UNCHANGED gui_vars

\* save_results_stream, format json: one pass of the for loop on the record
\* the iterator has handed over
StreamJson ==
    /\ sink_pc = "loop" /\ format = "json"
    /\ count < Len(results)
    /\ out' = File(out.data \o stream_json_pass(results[count + 1], count))
    /\ count' = count + 1
    /\ UNCHANGED <<pc, text, bill_str, log_data, extracted, log_line, payload, ret,
                   file_lines, mode, line_num, results>>
    /\ UNCHANGED file_io
    /\ UNCHANGED <<format, fieldnames, sink_pc, raised>>
    /\ UNCHANGED gui_vars

\* save_results_stream, format csv: one pass of the for loop; the first pass
\* fixes the field names and writes the header
StreamCsv ==
    /\ sink_pc = "loop" /\ format = "csv"
    /\ count < Len(results)
    /\ fieldnames' = stream_fieldnames(fieldnames, results[count + 1])
    /\ ~IsRaise(stream_row(fieldnames'.v, results[count + 1]))
    /\ out' = File(out.data \o stream_header(fieldnames, fieldnames'.v)
                   \o <<stream_row(fieldnames'.v, results[count + 1]).v>>)
    /\ count' = count + 1
    /\ UNCHANGED <<pc, text, bill_str, log_data, extracted, log_line, payload, ret,
                   file_lines, mode, line_num, results>>
    /\ UNCHANGED file_io
    /\ UNCHANGED <<format, sink_pc, raised>>
    /\ UNCHANGED gui_vars

\* save_results_stream, format csv: writer.writerow raises ValueError on a
\* record with a key outside the field names; nothing catches it, the with
\* statement closes the file and the exception leaves the sink
StreamCsvRaise ==
    /\ sink_pc = "loop" /\ format = "csv"
    /\ count < Len(results)
    /\ IsRaise(stream_row(stream_fieldnames(fieldnames, results[count + 1]).v,
                          results[count + 1]))
    /\ raised' = stream_row(stream_fieldnames(fieldnames, results[count + 1]).v,
                            results[count + 1])
    /\ sink_pc' = "done"
    /\ UNCHANGED <<pc, text, bill_str, log_data, extracted, log_line, payload, ret,
                   file_lines, mode, line_num, results>>
    /\ UNCHANGED file_io
    /\ UNCHANGED <<format, out, count, fieldnames>>
    /\ UNCHANGED gui_vars

\* save_results_stream: the iterator is exhausted; format json writes '\n]'
StreamClose ==
    /\ sink_pc = "loop"
    /\ pc = "done" /\ count = Len(results)
    /\ out' = File(out.data \o (IF format = "json" THEN <<"\n", "]">> ELSE <<>>))
    /\ sink_pc' = "done"
    /\ UNCHANGED <<pc, text, bill_str, log_data, extracted, log_line, payload, ret,
                   file_lines, mode, line_num, results>>
    /\ UNCHANGED file_io
    /\ UNCHANGED <<format, count, fieldnames, raised>>
    /\ UNCHANGED gui_vars

NextSink ==
    SaveResults \/ StreamOpen \/ StreamJson \/ StreamCsv \/ StreamCsvRaise \/ StreamClose

SpecSink == InitSink /\ [][NextSink]_vars

\* SpecPipe: save_results_stream(parse_log_file_stream(file), ...): the for
\* loop of the sink resumes the generator, which runs to its next yield.
InitPipe ==
    /\ pc = "loop"
    /\ file_lines \in PipeFiles
    /\ mode = "lazy"
    /\ format \in {"json", "csv"}
    /\ line_num = 0
    /\ results = <<>>
    /\ fault \in (IF file_lines = <<>> THEN {"none", "not_found", "read_error"}
                  ELSE {"none", "read_error"})
    /\ console = <<>>
    /\ out = NoFile /\ count = 0 /\ fieldnames = PyNone
    /\ sink_pc = "start" /\ raised = PyNone
    /\ IdleBill /\ IdleExtract /\ IdleLine
    /\ IdleGui

\* "for result in results_stream": next() on the generator yields a record
PullYield ==
    /\ sink_pc = "loop"
    /\ pull_allowed(count, Len(results))
    /\ LazyYield

\* next() on the generator: the file ends first
PullExhausted ==
    /\ sink_pc = "loop"
    /\ pull_allowed(count, Len(results))
    /\ LazyExhausted

\* next() on the generator: reading fails first
PullFault ==
    /\ sink_pc = "loop"
    /\ pull_allowed(count, Len(results))
    /\ LazyFault

\* a consumer that leaves its loop over the generator (break after a record)
ConsumerStop ==
    /\ sink_pc = "loop" /\ pc = "loop"
    /\ count = Len(results) /\ count > 0
    /\ sink_pc' = "stopped"
    /\ UNCHANGED <<pc, text, bill_str, log_data, extracted, log_line, payload, ret,
                   file_lines, mode, line_num, results>>
    /\ UNCHANGED file_io
    /\ UNCHANGED <<format, out, count, fieldnames, raised>>
    /\ UNCHANGED gui_vars

NextPipe ==
    \/ StreamOpen \/ PullYield \/ PullExhausted \/ PullFault
    \/ StreamJson \/ StreamCsv \/ StreamCsvRaise \/ StreamClose \/ ConsumerStop

SpecPipe == InitPipe /\ [][NextPipe]_vars

-----------------------------------------------------------------------------
(* The window (src/src/gui.py): a run in streaming mode *)

\* _stream_with_preview(stream, ui_flush_every=50)
ui_flush_every == 50

\* _poll_preview_queue: "len(batch) < 200"
PollBatch == 200

\* runs started from one window
MaxRuns == 2

\* The records parse_log_file_stream yields for the chosen file are named by
\* their place in the stream: 1, 2, ..., n.
stream_of(n) == [i \in 1..n |-> i]

\* sizes around the flush threshold and beyond one poll batch
StreamSizes == {0, 1, 2, ui_flush_every, ui_flush_every + 1, PollBatch + 1}

\* self._worker and self._worker.is_alive()
is_alive == worker_pc \notin {"none", "dead"}

\* the first n items of s, and the rest
Take(s, n) == SubSeq(s, 1, IF n < Len(s) THEN n ELSE Len(s))
Drop(s, n) == SubSeq(s, (IF n < Len(s) THEN n ELSE Len(s)) + 1, Len(s))

\* everything but the window
parser_vars ==
    <<pc, text, bill_str, log_data, extracted, log_line, payload, ret,
      file_lines, mode, line_num, results, fault, console,
      format, out, count, fieldnames, sink_pc, raised>>

\* SpecGui: the window after construction
InitGui ==
    /\ pc = "done"
    /\ IdleBill /\ IdleExtract /\ IdleLine /\ IdleFile /\ IdleSink
    /\ IdleGui

\* UI thread, _run_clicked with a valid streaming configuration: the button
\* is enabled and no worker is alive; the button is disabled, the table and
\* the queue are cleared, polling starts unless the flag is still set, and
\* the worker thread starts on save_results_stream(_stream_with_preview(...))
RunClicked ==
    /\ btn_run = "normal" /\ ~is_alive
    /\ runs < MaxRuns
    /\ \E n \in StreamSizes : stream' = stream_of(n)
    /\ btn_run' = "disabled"
    /\ preview_tree' = <<>>
    /\ preview_queue' = <<>>
    /\ preview_polling' = TRUE
    /\ poll_timers' = IF preview_polling THEN poll_timers ELSE poll_timers + 1
    /\ worker_pc' = "for"
    /\ item' = 0 /\ buffered' = <<>> /\ flush_at' = 0 /\ yielded' = <<>>
    /\ runs' = runs + 1
    /\ UNCHANGED after_queue
    /\ UNCHANGED parser_vars

\* worker, _stream_with_preview: "for item in stream" takes the next record
\* and appends it to buffered; a full buffer is flushed before the yield
WrapNext ==
    /\ worker_pc = "for" /\ stream # <<>>
    /\ item' = Head(stream)
    /\ stream' = Tail(stream)
    /\ buffered' = Append(buffered, Head(stream))
    /\ worker_pc' = IF Len(buffered') >= ui_flush_every THEN "flush" ELSE "yield"
    /\ UNCHANGED <<flush_at, yielded, preview_queue, preview_polling, preview_tree,
                   poll_timers, after_queue, btn_run, runs>>
    /\ UNCHANGED parser_vars

\* worker, _stream_with_preview: one pass of "for x in buffered:
\* self._enqueue_preview(x)"; after the last pass buffered.clear()
WrapFlush ==
    /\ worker_pc = "flush"
    /\ preview_queue' = Append(preview_queue, buffered[flush_at + 1])
    /\ IF flush_at + 1 < Len(buffered)
       THEN flush_at' = flush_at + 1 /\ UNCHANGED <<buffered, worker_pc>>
       ELSE flush_at' = 0 /\ buffered' = <<>> /\ worker_pc' = "yield"
    /\ UNCHANGED <<stream, item, yielded, preview_polling, preview_tree,
                   poll_timers, after_queue, btn_run, runs>>
    /\ UNCHANGED parser_vars

\* worker, _stream_with_preview: "yield item" hands the record to the for
\* loop of save_results_stream
WrapYield ==
    /\ worker_pc = "yield"
    /\ yielded' = Append(yielded, item)
    /\ worker_pc' = "sink"
    /\ UNCHANGED <<stream, item, buffered, flush_at, preview_queue, preview_polling,
                   preview_tree, poll_timers, after_queue, btn_run, runs>>
    /\ UNCHANGED parser_vars

\* worker, save_results_stream: the record is written and the for loop asks
\* the generator for the next one
SinkNext ==
    /\ worker_pc = "sink"
    /\ worker_pc' = "for"
    /\ UNCHANGED <<stream, item, buffered, flush_at, yielded, preview_queue,
                   preview_polling, preview_tree, poll_timers, after_queue,
                   btn_run, runs>>
    /\ UNCHANGED parser_vars

\* worker, save_results_stream with format csv: writer.writerow raises
\* ValueError on a record after the first (a key outside the field names);
\* the generator is never resumed and _run_job_safe goes to its finally
SinkRaise ==
    /\ worker_pc = "sink" /\ Len(yielded) >= 2
    /\ worker_pc' = "finally"
    /\ UNCHANGED <<stream, item, buffered, flush_at, yielded, preview_queue,
                   preview_polling, preview_tree, poll_timers, after_queue,
                   btn_run, runs>>
    /\ UNCHANGED parser_vars

\* worker, _stream_with_preview: the stream is exhausted; "if buffered:" one
\* pass of the final "for x in buffered: self._enqueue_preview(x)", or the
\* generator ends, the sink returns and _run_job_safe goes to its finally
WrapTail ==
    /\ worker_pc = "for" /\ stream = <<>>
    /\ IF flush_at < Len(buffered)
       THEN /\ preview_queue' = Append(preview_queue, buffered[flush_at + 1])
            /\ flush_at' = flush_at + 1
            /\ UNCHANGED worker_pc
       ELSE /\ worker_pc' = "finally"
            /\ flush_at' = 0
            /\ UNCHANGED preview_queue
    /\ UNCHANGED <<stream, item, buffered, yielded, preview_polling, preview_tree,
                   poll_timers, after_queue, btn_run, runs>>
    /\ UNCHANGED parser_vars

\* worker, _run_job_safe, finally: self.after(0, lambda: self._set_running(False))
FinallySetRunning ==
    /\ worker_pc = "finally"
    /\ after_queue' = Append(after_queue, "set_running")
    /\ worker_pc' = "finally_stop"
    /\ UNCHANGED <<stream, item, buffered, flush_at, yielded, preview_queue,
                   preview_polling, preview_tree, poll_timers, btn_run, runs>>
    /\ UNCHANGED parser_vars

\* worker, _run_job_safe, finally: self.after(0, self._stop_preview_polling);
\* the thread ends
FinallyStopPolling ==
    /\ worker_pc = "finally_stop"
    /\ after_queue' = Append(after_queue, "stop_preview_polling")
    /\ worker_pc' = "dead"
    /\ UNCHANGED <<stream, item, buffered, flush_at, yielded, preview_queue,
                   preview_polling, preview_tree, poll_timers, btn_run, runs>>
    /\ UNCHANGED parser_vars

\* UI thread: an 80 ms timer fires, _poll_preview_queue.  With the flag down
\* it returns; otherwise it moves up to 200 records from the queue to the
\* table and schedules itself again
PollPreviewQueue ==
    /\ poll_timers > 0
    /\ IF ~preview_polling
       THEN /\ poll_timers' = poll_timers - 1
            /\ UNCHANGED <<preview_queue, preview_tree>>
       ELSE /\ preview_tree' = preview_tree \o Take(preview_queue, PollBatch)
            /\ preview_queue' = Drop(preview_queue, PollBatch)
            /\ UNCHANGED poll_timers
    /\ UNCHANGED <<worker_pc, stream, item, buffered, flush_at, yielded,
                   preview_polling, after_queue, btn_run, runs>>
    /\ UNCHANGED parser_vars

\* UI thread: the oldest after(0) callback runs, self._set_running(False)
SetRunningFalse ==
    /\ after_queue # <<>> /\ Head(after_queue) = "set_running"
    /\ after_queue' = Tail(after_queue)
    /\ btn_run' = "normal"
    /\ UNCHANGED <<worker_pc, stream, item, buffered, flush_at, yielded,
                   preview_queue, preview_polling, preview_tree, poll_timers, runs>>
    /\ UNCHANGED parser_vars

\* UI thread: the oldest after(0) callback runs, self._stop_preview_polling
StopPreviewPolling ==
    /\ after_queue # <<>> /\ Head(after_queue) = "stop_preview_polling"
    /\ after_queue' = Tail(after_queue)
    /\ preview_polling' = FALSE
    /\ UNCHANGED <<worker_pc, stream, item, buffered, flush_at, yielded,
                   preview_queue, preview_tree, poll_timers, btn_run, runs>>
    /\ UNCHANGED parser_vars

NextGui ==
    \/ RunClicked
    \/ WrapNext \/ WrapFlush \/ WrapYield \/ SinkNext \/ SinkRaise \/ WrapTail
    \/ FinallySetRunning \/ FinallyStopPolling
    \/ PollPreviewQueue \/ SetRunningFalse \/ StopPreviewPolling

SpecGui == InitGui /\ [][NextGui]_vars

-----------------------------------------------------------------------------
(* Vocabulary of the properties *)

InPath(stage) == \E i \in DOMAIN ret.path : ret.path[i] = stage

CoreKeys == {"query", "bill_info", "reply"}

\* the first position >= i of t that holds no whitespace, Len(t) + 1 if none
NonSpaceFrom(t, i) ==
    IF \E j \in i..Len(t) : ~IsSpace(t[j])
    THEN CHOOSE j \in i..Len(t) : ~IsSpace(t[j]) /\ \A k \in i..(j - 1) : IsSpace(t[k])
    ELSE Len(t) + 1

\* '[' minus ']' over positions a..b of t
Depth(t, a, b) ==
    Cardinality({k \in a..b : t[k] = "["}) - Cardinality({k \in a..b : t[k] = "]"})

\* the positions of the ']' that matches the '[' at position j (at most one)
Closing(t, j) ==
    {e \in j..Len(t) : /\ t[e] = "]"
                       /\ Depth(t, j, e) = 0
                       /\ \A k \in j..(e - 1) : Depth(t, j, k) > 0}

\* a marker at p whose next non-whitespace character is '[' and whose '['
\* has a matching ']'
Qualifies(t, p) ==
    /\ Matches(t, bill_keyword, p)
    /\ NonSpaceFrom(t, p + Len(bill_keyword)) <= Len(t)
    /\ t[NonSpaceFrom(t, p + Len(bill_keyword))] = "["
    /\ Closing(t, NonSpaceFrom(t, p + Len(bill_keyword))) # {}

Qualifying(t) == {p \in 1..Len(t) : Qualifies(t, p)}

\* the list of a qualifying marker: from its '[' through the matching ']'
ListAt(t, p) ==
    LET open == NonSpaceFrom(t, p + Len(bill_keyword))
    IN SubSeq(t, open, CHOOSE e \in Closing(t, open) : TRUE)

\* the list of the rightmost qualifying marker, PyNone when there is none
LastList(t) ==
    IF Qualifying(t) = {} THEN PyNone
    ELSE Str(ListAt(t, CHOOSE p \in Qualifying(t) : \A r \in Qualifying(t) : p >= r))

\* what a nested source contributes: the last list of the string stored under
\* inner_key of the object encoded in the string stored under outer_key
SourceCandidate(pairs, outer_key, inner_key) ==
    LET outer == dict_get(pairs, outer_key, PyNone)
        decoded == json_loads(outer)
        inner == dict_get(decoded.v, inner_key, PyNone)
    IN IF outer.t = "str" /\ decoded.t = "obj" /\ inner.t = "str"
       THEN LastList(inner.v)
       ELSE PyNone

Source1(pairs) == SourceCandidate(pairs, <<"analysisResult">>, <<"message_interpretation">>)
Source2(pairs) == SourceCandidate(pairs, <<"promptParam">>, <<"reference">>)

-----------------------------------------------------------------------------
(* C1 *)

\* C1: for every non-blank line parse_log_line returns a record (never None)
\* that has the keys query, bill_info and reply.  The code returns None for
\* a line with neither ' - ' nor '{' (line 44).
C1_AlwaysRecord ==
    pc = "done" /\ Strip(log_line) # <<>>
        => ret.val.t = "dict" /\ CoreKeys \subseteq DOMAIN ret.val.v

-----------------------------------------------------------------------------
(* C2 *)

\* C2: parse_log_line never raises: whatever the line and the shape of the
\* decoded payload, the call hands back a value, not an exception.
C2_NeverRaises == pc = "done" => ~IsRaise(ret.val)

\* an exception was raised inside the call (here by a payload that decodes
\* to a mapping) and was turned into the empty result
C2_Witness ==
    /\ pc = "done"
    /\ payload.obj.t = "obj"
    /\ InPath("except")
    /\ ret.val = create_empty_result

-----------------------------------------------------------------------------
(* C3 *)

\* C3: a line without any '{' goes directly to the empty result: the record
\* returned for it has query, bill_info and reply all missing (the fallback
\* scanner is not run on it).  Stated for the lines that get a record at all
\* (None for a line with neither ' - ' nor '{' is C1's case): with ' - ' the
\* code decodes what follows the separator and, when that fails, runs the
\* fallback scanner, which fills in what its patterns find.
C3_NoBraceEmpty ==
    pc = "done" /\ (\A i \in DOMAIN log_line : log_line[i] # "{") /\ ret.val.t = "dict"
        => ret.val = create_empty_result

-----------------------------------------------------------------------------
(* C4, C5 *)

NonBlank == {n \in 1..Len(file_lines) : Strip(file_lines[n]) # <<>>}

\* C4: in both modes the records of a file are as many as its non-blank
\* lines.  A non-blank line with neither ' - ' nor '{' gets None from
\* parse_log_line (C1) and is dropped by both loops.
C4_OneRecordPerLine == pc = "done" => Len(results) = Cardinality(NonBlank)

\* the lines read so far that have a record: non-blank, and not None
RecordLines ==
    {n \in NonBlank : n <= line_num /\ parse_log_line(Strip(file_lines[n])).val.t = "dict"}

\* the k-th of them in file order
KthRecordLine(k) ==
    CHOOSE n \in RecordLines : Cardinality({m \in RecordLines : m <= n}) = k

\* C5: in both modes the k-th record is the record of the k-th line that has
\* one, and its line_number is that line's 1-based position in the file,
\* blank lines counted; line_number is strictly increasing along the records.
C5_LineNumbers ==
    /\ Len(results) = Cardinality(RecordLines)
    /\ \A k \in 1..Len(results) :
         LET n == KthRecordLine(k)
             parsed == parse_log_line(Strip(file_lines[n])).val
         IN /\ results[k].v.line_number = Num(n)
            /\ DOMAIN results[k].v = DOMAIN parsed.v \cup {"line_number"}
            /\ \A key \in DOMAIN parsed.v : results[k].v[key] = parsed.v[key]
    /\ \A k \in 2..Len(results) :
         results[k - 1].v.line_number.v < results[k].v.line_number.v

\* a file read to its end in which a blank line and a line without a record
\* come before two records, so the numbers differ from the record count
C5_Witness ==
    /\ pc = "done"
    /\ Len(results) = 2
    /\ results[1].v.line_number.v = 2
    /\ results[2].v.line_number.v > 3

-----------------------------------------------------------------------------
(* C6 *)

\* the payload the line was made of, and its fields
P_query == dict_get(payload.obj.v, <<"messageUser">>, PyNone)
P_reply == dict_get(payload.obj.v, <<"reply">>, PyNone)
P_analysis == dict_get(payload.obj.v, <<"analysisResult">>, PyNone)
P_prompt == dict_get(payload.obj.v, <<"promptParam">>, PyNone)

\* message_interpretation of the object encoded in analysisResult, PyNone
\* when analysisResult is no such encoding
P_interpretation ==
    IF P_analysis.t = "str" /\ json_loads(P_analysis).t = "obj"
    THEN dict_get(json_loads(P_analysis).v, <<"message_interpretation">>, PyNone)
    ELSE PyNone

\* the payload carries a non-empty messageUser, a non-empty reply and an
\* analysisResult whose message_interpretation has a marker followed by a
\* balanced list
EndToEndPayload ==
    /\ payload.obj.t = "obj"
    /\ P_query.t = "str" /\ P_query.v # <<>>
    /\ P_reply.t = "str" /\ P_reply.v # <<>>
    /\ P_interpretation.t = "str"
    /\ Qualifying(P_interpretation.v) # {}

\* the text the locator starts from: what follows the last ' - ', or the
\* text from the first '{' when the line has no ' - '
AfterSeparator(line) ==
    IF \E i \in 1..Len(line) : Matches(line, <<" ", "-", " ">>, i)
    THEN From(line, 3 + CHOOSE i \in 1..Len(line) :
                      /\ Matches(line, <<" ", "-", " ">>, i)
                      /\ \A j \in (i + 1)..Len(line) : ~Matches(line, <<" ", "-", " ">>, j))
    ELSE IF \E i \in 1..Len(line) : line[i] = "{"
         THEN From(line, CHOOSE i \in 1..Len(line) :
                           line[i] = "{" /\ \A j \in 1..(i - 1) : line[j] # "{")
         ELSE <<>>

\* '{' minus '}' over the first n symbols of t
BraceDepth(t, n) ==
    Cardinality({k \in 1..n : t[k] = "{"}) - Cardinality({k \in 1..n : t[k] = "}"})

\* the opening brace of t is matched by its last symbol, and by no earlier one
ClosedAtEnd(t) ==
    /\ t # <<>>
    /\ BraceDepth(t, Len(t)) = 0
    /\ \A n \in 1..(Len(t) - 1) : BraceDepth(t, n) > 0

NoPromptCandidate ==
    \/ P_prompt = PyNone
    \/ P_prompt.t = "str" /\ Source2(payload.obj.v) = PyNone

-----------------------------------------------------------------------------
(* C7 *)

\* C7: bill_info is the candidate of promptParam.reference when there is one,
\* else the candidate of analysisResult.message_interpretation, else missing.
\* A source value that is truthy and no string makes json.loads raise
\* TypeError, which the except clause does not name (C8): the call raises
\* instead of returning the other source's candidate.
C7_Precedence ==
    pc = "done"
        => extracted = IF Source2(log_data.v) # PyNone THEN Source2(log_data.v)
                       ELSE Source1(log_data.v)

-----------------------------------------------------------------------------
(* C8 *)

\* the mapping the candidate of the line decodes to
DecodedPayload == json_loads_str(candidate(Strip(log_line)))

\* C8: whatever is stored under analysisResult or promptParam of a decoded
\* mapping, that source merely gives no candidate: the record has query,
\* reply, user_id, session_id, user_intention and success_flag as extracted
\* from the mapping, and the other source's candidate.  For a value that is
\* truthy and no string the TypeError of json.loads leaves
\* _extract_bill_info and the record is the empty result.
C8_NestedIsolated ==
    pc = "done" /\ locate_start(Strip(log_line)).found /\ DecodedPayload.t = "obj"
        => ret.val =
             Dict([query |-> OrNone(dict_get(DecodedPayload.v, <<"messageUser">>, PyNone)),
                   bill_info |-> IF Source2(DecodedPayload.v) # PyNone
                                 THEN Source2(DecodedPayload.v)
                                 ELSE Source1(DecodedPayload.v),
                   reply |-> OrNone(dict_get(DecodedPayload.v, <<"reply">>, PyNone)),
                   user_id |-> dict_get(DecodedPayload.v, <<"userId">>, PyNone),
                   session_id |-> OrNone(dict_get(DecodedPayload.v, <<"sessionId">>, PyNone)),
                   user_intention |-> OrNone(dict_get(DecodedPayload.v, <<"userIntention">>, PyNone)),
                   success_flag |-> dict_get(DecodedPayload.v, <<"successFlag">>, PyNone)])

-----------------------------------------------------------------------------
(* C9 *)

\* C9: _find_bill_list returns the list of the rightmost marker that is
\* followed (after whitespace) by '[' with a depth-matched ']', from that '['
\* through its matching ']', and None exactly when no marker qualifies.
C9_LastCompleteList == pc = "done" => bill_str = LastList(text)

\* the rightmost marker opens a list that is never closed, so the list of an
\* earlier marker is returned
C9_Witness ==
    /\ pc = "done"
    /\ \E p \in Qualifying(text), r \in 1..Len(text) :
          /\ p < r
          /\ Matches(text, bill_keyword, r)
          /\ r + 1 <= Len(text) /\ text[r + 1] = "["
          /\ ~Qualifies(text, r)
          /\ bill_str = Str(ListAt(text, p))

-----------------------------------------------------------------------------
(* C10 *)

\* the candidate with every single quote replaced by a double quote, decoded
Repaired == json_loads_str(Replace(candidate(Strip(log_line)), <<"'">>, <<DQ>>))

\* C10: when the candidate does not decode but does once its single quotes
\* are replaced, the record is the one extracted from the repaired mapping,
\* and the fallback scanner is not used.  The repair is in the handler of the
\* outer try (lines 77-88), which no JSONDecodeError reaches: the inner try
\* catches the decode failure and runs the fallback scanner at once.
C10_QuoteRepair ==
    pc = "done" /\ locate_start(Strip(log_line)).found
                /\ IsRaise(DecodedPayload)
                /\ Repaired.t = "obj"
                /\ ~IsRaise(extract_fields_from_log_data(Repaired))
        => ret.val = extract_fields_from_log_data(Repaired) /\ ~InPath("fallback")

-----------------------------------------------------------------------------
(* C11 *)

\* the texts v for which "key" : "v", with optional whitespace on both sides
\* of the colon and no '"' inside v, stands at position i of line (at most one)
WellFormedAt(line, key, i) ==
    IF ~Matches(line, <<DQ, key, DQ>>, i) THEN {}
    ELSE {SubSeq(line, oe[1] + 1, oe[2] - 1) :
            oe \in {x \in ((i + 4)..Len(line)) \X ((i + 5)..Len(line)) :
                      /\ x[1] < x[2]
                      /\ line[x[1]] = DQ /\ line[x[2]] = DQ
                      /\ \A k \in (x[1] + 1)..(x[2] - 1) : line[k] # DQ
                      /\ \E c \in (i + 3)..(x[1] - 1) :
                            /\ line[c] = ":"
                            /\ \A k \in (i + 3)..(c - 1) : IsSpace(line[k])
                            /\ \A k \in (c + 1)..(x[1] - 1) : IsSpace(line[k])}}

WellFormedPositions(line, key) ==
    {i \in 1..Len(line) : WellFormedAt(line, key, i) # {}}

\* the v of the leftmost well-formed "key" : "v"
LeftmostValue(line, key) ==
    LET first == CHOOSE i \in WellFormedPositions(line, key) :
                    \A j \in WellFormedPositions(line, key) : i <= j
    IN CHOOSE v \in WellFormedAt(line, key, first) : TRUE

-----------------------------------------------------------------------------
(* C12, C13 *)

\* the position after the opening quote of the reply value: the first '"'
\* after the leftmost "reply": ; 0 when the line has none
ReplyValueStart(line) ==
    LET reply_start == Find(line, <<DQ, "reply", DQ, ":">>, 1)
        quote == IF reply_start = 0 THEN 0 ELSE Find(line, <<DQ>>, reply_start + 4)
    IN IF quote = 0 THEN 0 ELSE quote + 1

\* the backslashes that stand immediately before position p, back to from
BackslashesBefore(line, from, p) ==
    Cardinality({k \in from..(p - 1) : \A j \in k..(p - 1) : line[j] = BS})

\* a '"' at p that no backslash escapes: an even number of them precedes it
UnescapedQuote(line, from, p) ==
    line[p] = DQ /\ BackslashesBefore(line, from, p) % 2 = 0

\* the next non-whitespace character after p is ',', '}' or a newline
TerminatorFollows(line, p) ==
    /\ NonSpaceFrom(line, p + 1) <= Len(line)
    /\ line[NonSpaceFrom(line, p + 1)] \in {",", "}", "\n"}

\* the quotes that end the reply value
ClosingQuotes(line) ==
    {p \in ReplyValueStart(line)..Len(line) :
        UnescapedQuote(line, ReplyValueStart(line), p) /\ TerminatorFollows(line, p)}

FirstClosingQuote(line) ==
    CHOOSE p \in ClosingQuotes(line) : \A r \in ClosingQuotes(line) : p <= r

RECURSIVE Unescaped(_)
\* v read from the left with \" taken as " and \\ as \
Unescaped(v) ==
    IF v = <<>> THEN <<>>
    ELSE IF v[1] = BS /\ Len(v) >= 2 /\ v[2] \in {DQ, BS}
         THEN <<v[2]>> \o Unescaped(From(v, 3))
    ELSE <<v[1]>> \o Unescaped(From(v, 2))

\* the reply the terminator rule gives for a line with a reply value
RuleReply(line) ==
    IF ClosingQuotes(line) = {} THEN PyNone
    ELSE Str(Unescaped(SubSeq(line, ReplyValueStart(line), FirstClosingQuote(line) - 1)))

\* C12: in a record of the fallback scanner, the reply value runs from its
\* opening quote to the first unescaped '"' whose next non-whitespace
\* character is ',', '}' or a newline; a '"' followed by anything else does
\* not end it, and without such a quote no reply is extracted.  The code
\* keeps its escaped flag set after a backslash (C13), so a quote that no
\* backslash precedes is passed over.
C12_TerminatorRule ==
    /\ pc = "done"
    /\ InPath("fallback")
    /\ ReplyValueStart(Strip(log_line)) # 0
    => ret.val.v.reply = RuleReply(Strip(log_line))

\* a reply value that holds a backslash
HasEscape(line) ==
    \E k \in ReplyValueStart(line)..(FirstClosingQuote(line) - 1) : line[k] = BS

\* C13: a reply value with backslash-escaped characters, closed by an
\* unescaped '"' that ',' or '}' follows, is extracted up to that quote with
\* \" and \\ unescaped.  In the code a backslash toggles the escaped flag and
\* nothing clears it: after one \" every later quote counts as escaped.
C13_EscapedReply ==
    /\ pc = "done"
    /\ InPath("fallback")
    /\ ReplyValueStart(Strip(log_line)) # 0
    /\ ClosingQuotes(Strip(log_line)) # {}
    /\ HasEscape(Strip(log_line))
    => ret.val.v.reply = RuleReply(Strip(log_line))

-----------------------------------------------------------------------------
(* C19 *)

TextKeys == {"query", "reply", "session_id", "user_intention"}

\* C19: in every record parse_log_line returns, query, reply, session_id and
\* user_intention are each missing or non-empty, never the empty string.
\* The fallback scanner stores the group its pattern matched, which is ""
\* for "messageUser":"" (lines 203, 236, 250, 254), where the field
\* extraction has "or None".
C19_NoEmptyString ==
    pc = "done" /\ ret.val.t = "dict"
        => \A k \in TextKeys \cap DOMAIN ret.val.v : ret.val.v[k] # Str(<<>>)

-----------------------------------------------------------------------------
(* C14 *)

FullKeys == {"query", "bill_info", "reply", "user_id", "session_id",
             "user_intention", "success_flag", "line_number"}
OptionalKeys == {"user_id", "session_id", "user_intention", "success_flag"}

\* the tier that produced the record of a line, read off the stages
\* parse_log_line went through
Tier(line) ==
    LET path == parse_log_line(line).path
    IN IF \E i \in DOMAIN path : path[i] = "empty" THEN "EmptyResult"
       ELSE IF \E i \in DOMAIN path : path[i] = "fallback" THEN "fallback"
       ELSE "extraction"

RecordTier(k) == Tier(file_lines[results[k].v.line_number.v])

\* C14 as stated: every record of a file, whatever tier produced it, has the
\* eight keys query, bill_info, reply, user_id, session_id, user_intention,
\* success_flag and line_number.
C14_FullFieldSet ==
    \A k \in 1..Len(results) : DOMAIN results[k].v = FullKeys

\* C14 amended: every record has query, bill_info, reply and line_number and
\* no key outside the eight; a record of the extraction tier has all eight;
\* a record of the fallback scan has no success_flag (and the other three
\* optional keys only where the scan matched them); an EmptyResult record
\* has none of the four optional keys.
C14_TierFieldSets ==
    \A k \in 1..Len(results) :
        LET keys == DOMAIN results[k].v
        IN /\ CoreKeys \cup {"line_number"} \subseteq keys
           /\ keys \subseteq FullKeys
           /\ RecordTier(k) = "extraction" => keys = FullKeys
           /\ RecordTier(k) = "fallback" => "success_flag" \notin keys
           /\ RecordTier(k) = "EmptyResult" => keys \cap OptionalKeys = {}

\* a file read to its end whose records come from the three tiers
C14_Witness ==
    /\ pc = "done"
    /\ Len(results) = 3
    /\ {RecordTier(k) : k \in 1..3} = {"extraction", "fallback", "EmptyResult"}
    /\ \E k \in 1..3 : DOMAIN results[k].v = FullKeys
    /\ \E k \in 1..3 : DOMAIN results[k].v = CoreKeys \cup {"line_number"}

-----------------------------------------------------------------------------
(* C15 *)

\* a record, and a sequence of records, as the decoder returns them
AsJson(record) ==
    Obj([i \in 1..Len(keys_of(record)) |->
           <<<<keys_of(record)[i]>>, record.v[keys_of(record)[i]]>>])
AsJsonArray(records) == Arr([k \in 1..Len(records) |-> AsJson(records[k])])

\* C15: when a JSON sink has finished, its file begins with '[' and ends with
\* ']' and decodes to the array of the records in their order, which is also
\* what the eager sink's text for the same sequence decodes to; the empty
\* sequence included.
C15_StreamJsonEquivalent ==
    sink_pc = "done" /\ format = "json" =>
        /\ out.created
        /\ Head(out.data) = "[" /\ out.data[Len(out.data)] = "]"
        /\ json_loads_str(out.data).t = "arr"
        /\ json_loads_str(out.data) = AsJsonArray(results)
        /\ json_loads_str(json_dump_list(results)) = json_loads_str(out.data)

\* the streaming sink has written two records, the first with the eight keys
\* and a string holding a quote and a comma, and has closed the array
C15_Witness ==
    /\ sink_pc = "done" /\ format = "json" /\ mode = "lazy"
    /\ count = 2 /\ Len(results) = 2
    /\ DOMAIN results[1].v = FullKeys
    /\ DOMAIN results[2].v # FullKeys
    /\ out.data # json_dump_list(results)

-----------------------------------------------------------------------------
(* C16 *)

\* the column name of cell i: the header cell holds the name
Column(i) == out.data[1][i][1]

\* the record of data row j (row 1 is the header)
RowRecord(j) == results[j - 1].v

Missing(j, i) == Column(i) \notin DOMAIN RowRecord(j) \/ RowRecord(j)[Column(i)].t = "none"

\* C16: in a CSV file, written eagerly or by the streaming sink, every row
\* has one cell per column, and the cell of a field that is null or that the
\* record lacks is empty.
C16_MissingIsEmptyCell ==
    format = "csv" /\ out.created =>
        \A j \in 2..Len(out.data) :
            /\ Len(out.data[j]) = Len(out.data[1])
            /\ \A i \in 1..Len(out.data[1]) : Missing(j, i) => out.data[j][i] = <<>>

\* the streaming sink has written a record with the eight keys, some null,
\* then a record that lacks four of the columns
C16_Witness ==
    /\ format = "csv" /\ mode = "lazy" /\ sink_pc = "done"
    /\ Len(out.data) = 3
    /\ Len(out.data[1]) = 8
    /\ \E i \in 1..8 : RowRecord(2)[Column(i)].t = "none"
    /\ \E i \in 1..8 : Column(i) \notin DOMAIN RowRecord(3)
    /\ \E i \in 1..8 : out.data[2][i] = <<"None">>

-----------------------------------------------------------------------------
(* C17 *)

\* C17: every record of a file has its keys within the first record's keys,
\* and the streaming CSV sink fed by the generator ends without an exception,
\* having written the header of the first record's keys and one row per
\* record.
C17_StreamCsvCompletes ==
    /\ \A k \in 1..Len(results) : DOMAIN results[k].v \subseteq DOMAIN results[1].v
    /\ format = "csv" /\ sink_pc = "done" =>
          /\ raised.t = "none"
          /\ pc = "done" /\ count = Len(results)
          /\ results # <<>> =>
                /\ Len(out.data) = Len(results) + 1
                /\ out.data[1] = csv_header(sorted_keys(DOMAIN results[1].v))

-----------------------------------------------------------------------------
(* C20 *)

\* the line of the last record the generator has yielded, 0 before the first
LastYieldLine ==
    IF results = <<>> THEN 0 ELSE results[Len(results)].v.line_number.v

\* at most one record is produced and not yet written; while one is, and
\* after the consumer has stopped or the sink has been left by an exception,
\* no line after the last yielded record's line has been read
OneAtATime ==
    /\ Len(results) - count <= 1
    /\ (pc = "loop" /\ sink_pc # "start") => line_num = LastYieldLine
    /\ count < Len(results) => pc = "loop"
    /\ sink_pc = "stopped" => count = Len(results) /\ line_num = LastYieldLine

\* a line is read only when every record produced has been written and the
\* consumer is still in its loop
ReadsWhenWritten ==
    line_num' # line_num => count = Len(results) /\ sink_pc = "loop"

\* C20: lazy mode is one record at a time: record k is written before any
\* line after its source line is read, at most one record is produced and
\* not yet written, and once the consumer has stopped no further line is
\* read.
C20_OneRecordAtATime == []OneAtATime /\ [][ReadsWhenWritten]_vars

\* record 1 is written, record 2 is produced and not yet written, and a line
\* after record 2's line is still unread
C20_Witness ==
    /\ sink_pc = "loop" /\ count = 1 /\ Len(results) = 2
    /\ line_num = LastYieldLine
    /\ line_num < Len(file_lines)
    /\ Strip(file_lines[Len(file_lines)]) # <<>>

-----------------------------------------------------------------------------
(* C18 *)

\* what the file call hands to its caller: the exception that leaves it and
\* the records returned (eager) or yielded before the generator ends (lazy)
handed_back == [exc |-> raised, records |-> results]

\* what a caller gets from a file that is read without error and has no record
EmptySuccess == [exc |-> PyNone, records |-> <<>>]

\* C18: when the file is not found or cannot be read to its end, the call
\* ends with an exception that tells the two apart: it does not end like a
\* successful read, and hands no partial record sequence back as the result.
C18_FaultSurfaced ==
    pc = "done" /\ fault # "none" =>
        /\ IsRaise(handed_back.exc)
        /\ handed_back # EmptySuccess
        /\ fault = "not_found" <=> handed_back.exc = Raise("FileNotFoundError")

-----------------------------------------------------------------------------
(* C21 *)

\* the line has a place for the candidate to start
HasStart(line) ==
    \E i \in 1..Len(line) : Matches(line, <<" ", "-", " ">>, i) \/ line[i] = "{"

\* the positions of the '}' at which the depth of the region is zero
ZeroCloses(region) ==
    {j \in 1..Len(region) : region[j] = "}" /\ BraceDepth(region, j) = 0}

\* the selection rule on a line: the region after the last ' - ' (from the
\* first '{' without one), up to the first '}' at which the depth is zero
SelectionRule(line, cand) ==
    LET region == AfterSeparator(line)
    IN IF ZeroCloses(region) = {} THEN cand = region
       ELSE /\ cand = SubSeq(region, 1, CHOOSE j \in ZeroCloses(region) :
                                           \A k \in ZeroCloses(region) : j <= k)
            /\ cand[Len(cand)] = "}"
            /\ BraceDepth(cand, Len(cand)) = 0

\* the call went on to the decoder
HandedToDecoder == InPath("decoded") \/ InPath("decode_failed")

-----------------------------------------------------------------------------
(* C22 *)

\* the stage before the first occurrence of a stage in the path of the call
StageBefore(stage) ==
    LET i == CHOOSE k \in DOMAIN ret.path :
                 ret.path[k] = stage /\ \A j \in 1..(k - 1) : ret.path[j] # stage
    IN IF i = 1 THEN "none" ELSE ret.path[i - 1]

CandidateDecodes == ~IsRaise(json_loads_str(candidate(Strip(log_line))))

-----------------------------------------------------------------------------
(* C23 *)

\* the '[' that follows the marker at position i after optional whitespace
MarkerOpen(line, i) == SkipSpace(line, i + 1)

\* the positions of a marker followed, after optional whitespace, by '[' and
\* a later ']'
MarkedSpans(line) ==
    {i \in 1..Len(line) :
        /\ line[i] = Marker
        /\ MarkerOpen(line, i) <= Len(line)
        /\ line[MarkerOpen(line, i)] = "["
        /\ \E e \in (MarkerOpen(line, i) + 1)..Len(line) : line[e] = "]"}

\* from the '[' after the leftmost of them through the first ']' after it
LeftmostSpan(line) ==
    LET i == CHOOSE k \in MarkedSpans(line) : \A j \in MarkedSpans(line) : k <= j
        open == MarkerOpen(line, i)
        close == CHOOSE e \in (open + 1)..Len(line) :
                     line[e] = "]" /\ \A f \in (open + 1)..(e - 1) : line[f] # "]"
    IN SubSeq(line, open, close)

-----------------------------------------------------------------------------
(* C24 *)

\* C24: the candidate handed to the decoder begins with '{', and that brace
\* is closed by the candidate's last symbol and by no earlier one.  The code
\* starts the scan at the first symbol after the last ' - ', not at the first
\* '{' of the region.
C24_CandidateShape ==
    pc = "done" /\ HandedToDecoder =>
        /\ candidate(Strip(log_line)) # <<>>
        /\ Head(candidate(Strip(log_line))) = "{"
        /\ ClosedAtEnd(candidate(Strip(log_line)))

-----------------------------------------------------------------------------
(* C25: the streaming preview of the window *)

\* the records put on the preview queue since the run began, oldest first:
\* a poll moves records from the head of the queue to the end of the table
enqueued == preview_tree \o preview_queue

\* s holds the records of the stream in stream order, each once, none skipped
InStreamOrder(s) == \A i \in 1..Len(s) : s[i] = i

\* the worker has finished, its callbacks have run, polling is stopped
PreviewStopped ==
    /\ runs > 0 /\ worker_pc = "dead"
    /\ after_queue = <<>> /\ ~preview_polling

\* C25: in a streaming run the records put on the preview queue are records
\* of the stream in stream order, each once; and once the worker has
\* finished and polling is stopped, every record that _stream_with_preview
\* yielded to the sink is a row of the preview table and none is left in the
\* queue, whatever the interleaving of the worker with the 80 ms poll and
\* the callbacks of the worker's finally block.
C25_StreamingPreview ==
    /\ InStreamOrder(enqueued)
    /\ PreviewStopped => preview_queue = <<>> /\ preview_tree = yielded

====
